---- MODULE Spec2Model ----
(***************************************************************************)
(* Model of the desktop-automation orchestrator (sslinkyy/Gpt-trader).     *)
(*                                                                         *)
(*   SpecReg    - agent/apps/registry.py : ApplicationRegistry over an OS  *)
(*                layer of processes and windows                           *)
(*   SpecClick  - agent/runner/ui_engine.py : UIClickEngine.click          *)
(*   SpecRecipe - agent/runner/steps.py : RecipeRunner.run_recipe over     *)
(*                agent/state/store.py : StateStore.activity               *)
(*   SpecWatch  - agent/runner/intent_watcher.py : IntentWatcher           *)
(*   SpecBridge - agent/runner/chat_bridge.py : ChatIntentBridge with      *)
(*                agent/runner/chat_commands.py : ChatCommandParser        *)
(*   SpecOcr    - agent/vision/ocr_intents.py : OCRIntentScanner writing   *)
(*                through the bridge                                       *)
(*   SpecRegConc - agent/apps/registry.py : start, close and kill called   *)
(*                from two threads, each call in the steps between which   *)
(*                another thread can run                                   *)
(*   SpecFocus  - agent/apps/registry.py : start, then focus by the         *)
(*                instance identifier start returned                       *)
(*   SpecResolve - agent/runner/steps.py : RecipeRunner._resolve_target    *)
(*   SpecStep   - agent/runner/steps.py : the app lifecycle steps over the  *)
(*                registry and the State Store's process registry         *)
(*   SpecEmit   - agent/runner/chat_bridge.py : _write_intent called by    *)
(*                the chat loop and the scan thread on one bridge         *)
(*   SpecPoll   - agent/runner/chat_commands.py : ChatCommandWatcher       *)
(*   SpecShutdown - agent/cli.py : main and trigger_shutdown with          *)
(*                agent/platform/windows/hotkeys.py : GlobalHotKeyListener *)
(***************************************************************************)
EXTENDS Integers, Sequences, FiniteSets, TLC

(***************************************************************************)
(* Bounds of the model.                                                    *)
(***************************************************************************)
MaxProc == 2        \* processes spawned by the registry (subprocess.Popen calls)
MaxWin == 1         \* top-level window handles the OS hands out

(***************************************************************************)
(* Application names. "a" and "b" are configured and enabled, "off" is     *)
(* configured with enabled = false, "zz" is not configured.                *)
(***************************************************************************)
Apps == {"a", "b"}
DisabledApp == "off"
UnknownApp == "zz"
Configured == Apps \cup {DisabledApp}
Names == Configured \cup {UnknownApp}
Policies == {"detect", "force", "allow"}

ProcIds == 1..MaxProc
ExtPid == MaxProc + 1          \* a process the registry did not spawn
Hwnds == 1..MaxWin
NoWin == [app |-> "none", pid |-> 0]

VARIABLES
    policy,      \* config.window.single_instance of each configured application
    alive,       \* OS: the spawned processes still running (Popen.poll() is None)
    win,         \* OS: hwnd -> the window with that handle, or NoWin
    nextPid,     \* OS: the pid the next Popen gets
    running,     \* ApplicationRegistry._running : name -> list of records
    instances,   \* ApplicationRegistry._instances : the instance ids it maps
    ret,         \* the call that has just returned (Idle between calls): its
                 \* arguments, outcome, the OS calls it made, the state it began in
    \* ---- UI Interaction Engine
    element,         \* the UIElementHandle: is_enabled, what each strategy does
    allow_focus_tap, \* UIClickEngine.allow_focus_tap
    clickRet,        \* the last click(): outcome and the strategies attempted
    \* ---- Recipe Runner and State Store
    recipe,          \* the steps of the recipe file, in document order
    history_limit,   \* StateStore._history_limit
    runs,            \* run_recipe calls made so far
    runState,        \* "idle", "running", "returned" or "raised"
    runErr,          \* the exception run_recipe raised: kind and message
    stepIdx,         \* enumerate(steps, start=1) position of the run
    current,         \* StateStore._current_activity (NoActivity for None)
    history,         \* StateStore._activity_history
    handlerLog,      \* the step indices whose handler the current run called
    completed,       \* every activity record ended so far, in the order they ended
    \* ---- Intent Watcher
    intentsDir,      \* the watch directory: file name -> file, or NoFile
    archiveDir,      \* the archive directory: file name -> file, or NoFile
    events,          \* create events the observer has not delivered yet
    handling,        \* on_created in progress: where it is, attempts made, payload
    handled,         \* what on_created did, from its end until it has returned
    renameReplaces,  \* the platform: Path.rename replaces an existing target
    envOps,          \* producer writes and duplicate events so far
    watching,        \* the observer thread is delivering events
    \* ---- Chat Intent Bridge
    bridgeMappings,  \* ChatIntentBridge._mappings: the intent names mapped to a recipe
    manifest,        \* ChatIntentBridge._manifest_path is not None
    bridgeDir,       \* the files of the bridge's intents directory: name, payload
    sequence,        \* the next value of ChatIntentBridge._sequence
    bridgeRet,       \* the process_transcript call that has just returned
    bridgeCalls,     \* process_transcript calls made so far
    \* ---- OCR Intent Scanner
    scan_history_limit, \* maxlen of OCRIntentScanner._fired_history
    fired_history,   \* OCRIntentScanner._fired_history, oldest first
    fired_lookup,    \* OCRIntentScanner._fired_lookup
    evicted,         \* keys dropped from the history and not fired since
    scanPc,          \* the scan thread: "capture", "process", "sleep", "ended", "dead"
    scanText,        \* the markers of the captured text not examined yet
    scanTs,          \* the bridge clock during the scan of the captured text
    scanRet,         \* the last step of the scan thread: a marker or a capture failure
    lastFailure,     \* the history when the provider last raised
    ticks,           \* polls made so far
    scan_stop,       \* OCRIntentScanner._stop_event
    \* ---- Agent process: main() and the panic hotkey
    enable_chat_bridge, \* main: the chat bridge loop is the foreground task
    enable_ocr_intents, \* main: an OCR scanner is created
    shutdown_requested, \* main: the event that guards trigger_shutdown
    observer,        \* IntentWatcher._observer: "running", "stopped", "stop_failed"
    watcher_stop_event, \* IntentWatcher._stop_event
    bridge_stop_event,  \* ChatIntentBridge._stop_event
    scanner,         \* main's scanner: "none", "running", "stopping", "ended"
    hotkey,          \* GlobalHotKeyListener: flags, thread, OS registration, messages
    mainPc,          \* the main thread: "setup", "serving", "finally_*", "exited"
    interruptPending,   \* interrupt_main() was called and not yet delivered
    cbPc,            \* trigger_shutdown on the listener thread
    presses,         \* hotkey presses so far
    panics,          \* trigger_shutdown calls that passed the guard, and the
                     \* interrupt_main() calls made
    \* ---- Application Registry called from several threads
    threads,         \* each caller thread: the call it is in and how far it got
    \* ---- instance identifiers
    instance_hex,    \* what _make_instance_id() yields for the record of each
                     \* process: 0 for a string with a letter a-f in it, n > 0
                     \* for a string of decimal digits only, of integer value n
    \* ---- Recipe Runner: the instance target of an app lifecycle step
    stepPayload,     \* the step's payload: key -> value, or Absent
    stepContext,     \* the run's context: key -> value, or Absent
    latest_instance, \* StateStore.latest_instance_for(app_name), or Absent
    resolved,        \* what _resolve_target returned or raised
    \* ---- Recipe Runner: app lifecycle steps over the registry and the store
    process_registry, \* StateStore._process_registry: the entries, oldest
                     \* _updated_dt first
    \* ---- Chat Intent Bridge: concurrent callers of _write_intent
    emitters,        \* each caller thread: where it is in _write_intent, the
                     \* attempts made, the path it is about to open, the
                     \* paths it has written
    \* ---- Chat Command Watcher
    seen_tokens,     \* ChatCommandWatcher._seen_tokens
    polled,          \* the tokens of the commands returned since the last
                     \* reset(), in the order returned
    pollRet,         \* the last call: its transcript, _seen_tokens before, result
    pollCalls        \* calls made

regVars == <<policy, alive, win, nextPid, running, instances, ret>>
uiVars == <<element, allow_focus_tap, clickRet>>
rcpVars == <<recipe, history_limit, runs, runState, runErr, stepIdx, current, history, handlerLog,
            completed>>
watchVars == <<intentsDir, archiveDir, events, handling, handled, renameReplaces, envOps,
               watching>>
bridgeVars == <<bridgeMappings, manifest, bridgeDir, sequence, bridgeRet, bridgeCalls>>
ocrVars == <<scan_history_limit, fired_history, fired_lookup, evicted, scanPc, scanText,
             scanTs, scanRet, lastFailure, ticks, scan_stop>>
shutVars == <<enable_chat_bridge, enable_ocr_intents, shutdown_requested, observer,
              watcher_stop_event, bridge_stop_event, scanner, hotkey, mainPc,
              interruptPending, cbPc, presses, panics>>
concVars == <<threads>>
idVars == <<instance_hex>>
resVars == <<stepPayload, stepContext, latest_instance, resolved>>
stepVars == <<process_registry>>
emitVars == <<emitters>>
pollVars == <<seen_tokens, polled, pollRet, pollCalls>>
vars == <<regVars, uiVars, rcpVars, watchVars, bridgeVars, ocrVars, shutVars, concVars, idVars,
          resVars, stepVars, emitVars, pollVars>>

\* the variables of the other components, which a component's actions leave alone
notReg == <<uiVars, rcpVars, watchVars, bridgeVars, ocrVars, shutVars, concVars, idVars,
    resVars, stepVars, emitVars, pollVars>>
notUi == <<regVars, rcpVars, watchVars, bridgeVars, ocrVars, shutVars, concVars, idVars,
    resVars, stepVars, emitVars, pollVars>>
notRcp == <<regVars, uiVars, watchVars, bridgeVars, ocrVars, shutVars, concVars, idVars,
    resVars, stepVars, emitVars, pollVars>>
notWatch == <<regVars, uiVars, rcpVars, bridgeVars, ocrVars, shutVars, concVars, idVars,
    resVars, stepVars, emitVars, pollVars>>
notBridge == <<regVars, uiVars, rcpVars, watchVars, ocrVars, shutVars, concVars, idVars,
    resVars, stepVars, emitVars, pollVars>>
notOcr == <<regVars, uiVars, rcpVars, watchVars, shutVars, concVars, idVars,
    resVars, stepVars, emitVars, pollVars>>
notShut == <<regVars, uiVars, rcpVars, watchVars, bridgeVars, ocrVars, concVars, idVars,
    resVars, stepVars, emitVars, pollVars>>
notRes == <<regVars, uiVars, rcpVars, watchVars, bridgeVars, ocrVars, shutVars, concVars,
    idVars, stepVars, emitVars, pollVars>>
notStep == <<uiVars, rcpVars, watchVars, bridgeVars, ocrVars, shutVars, concVars, idVars,
    resVars, emitVars, pollVars>>
notEmit == <<regVars, uiVars, rcpVars, watchVars, ocrVars, shutVars, concVars, idVars,
    resVars, stepVars, pollVars>>
notPoll == <<regVars, uiVars, rcpVars, watchVars, bridgeVars, ocrVars, shutVars, concVars,
    idVars, resVars, stepVars, emitVars>>
notConc == <<uiVars, rcpVars, watchVars, bridgeVars, ocrVars, shutVars, idVars,
    resVars, stepVars, emitVars, pollVars>>

(***************************************************************************)
(* window_manager: the windows matching a definition, in enumeration order *)
(***************************************************************************)
RECURSIVE SnapFrom(_, _, _)
SnapFrom(w, name, h) ==
    IF h > MaxWin THEN <<>>
    ELSE (IF w[h].app = name
          THEN <<[hwnd |-> h, pid |-> w[h].pid]>>
          ELSE <<>>) \o SnapFrom(w, name, h + 1)

snapshot_windows(w, name) == SnapFrom(w, name, 1)

is_window(w, h) == h \in Hwnds /\ w[h] # NoWin

(***************************************************************************)
(* ApplicationProcess and the registry's private helpers                   *)
(***************************************************************************)
\* id: instance_id, proc: the Popen handle's pid, pid: the tracked pid,
\* windows: the window map (in insertion order), focused: last_focused_at is set
NewRecord(name, p) ==
    [id |-> p, app |-> name, proc |-> p, pid |-> p, windows |-> <<>>, focused |-> FALSE]

NoRecord == [id |-> 0, app |-> "none", proc |-> 0, pid |-> 0, windows |-> <<>>, focused |-> FALSE]

has_live_process(al, rec) == rec.proc \in al

\* vis: the handles whose window is visible at the time of the snapshot
update_windows(w, rec, requireVisible, vis) ==
    LET snaps == snapshot_windows(w, rec.app)
        Keep(s) == ~requireVisible \/ s.hwnd \in vis
        ws == SelectSeq(snaps, Keep)
    IN [rec EXCEPT !.windows = ws,
                   !.pid = IF ws # <<>> THEN ws[1].pid ELSE @]

IdsOf(recs) == {recs[i].id : i \in 1..Len(recs)}

\* reg is [running, instances]; os is [alive, win, calls]
PurgeNoWindowCheck(reg, os, name) ==
    LET recs == reg.running[name]
        upd == [i \in 1..Len(recs) |-> update_windows(os.win, recs[i], FALSE, {})]
        Live(r) == has_live_process(os.alive, r)
        kept == SelectSeq(upd, Live)
    IN IF recs = <<>> THEN reg
       ELSE [running |-> [reg.running EXCEPT ![name] = kept],
             instances |-> reg.instances \ (IdsOf(recs) \ IdsOf(kept))]

purge_stopped(reg, os, name) ==
    LET recs == reg.running[name]
        upd == [i \in 1..Len(recs) |-> update_windows(os.win, recs[i], FALSE, {})]
        Live(r) == has_live_process(os.alive, r) \/ r.windows # <<>>
        kept == SelectSeq(upd, Live)
    IN IF recs = <<>> THEN reg
       ELSE [running |-> [reg.running EXCEPT ![name] = kept],
             instances |-> reg.instances \ (IdsOf(recs) \ IdsOf(kept))]

remove_inactive_records(reg, os, name) ==
    LET recs == reg.running[name]
        upd == [i \in 1..Len(recs) |-> update_windows(os.win, recs[i], FALSE, {})]
        Live(r) == r.windows # <<>> \/ has_live_process(os.alive, r)
        kept == SelectSeq(upd, Live)
    IN IF recs = <<>> THEN reg
       ELSE [running |-> [reg.running EXCEPT ![name] = kept],
             instances |-> reg.instances \ (IdsOf(recs) \ IdsOf(kept))]

(***************************************************************************)
(* The OS layer's answers to the calls the registry makes.  An oracle orc  *)
(* fixes, for one registry call, which outcome each OS call has:           *)
(*   termOk  - processes that exit within the timeout after terminate()    *)
(*   killOk  - processes that exit within the wait after kill() /          *)
(*             TerminateProcess                                            *)
(*   closeOk - windows that are gone after WM_CLOSE was posted             *)
(*   spawnOk - whether Popen succeeds                                      *)
(*   visible - windows that are visible (and not minimized) when looked at *)
(***************************************************************************)
OpenWindows(w, name) == {h \in Hwnds : w[h].app = name}

Oracle(t, k, c, s, v) ==
    [termOk |-> t, killOk |-> k, closeOk |-> c, spawnOk |-> s, visible |-> v]

NoOracle == Oracle({}, {}, {}, TRUE, {})

Call(os, c, arg) == [os EXCEPT !.calls = Append(@, <<c, arg>>)]

\* A process that ends takes the windows it owns with it.
ProcessDies(os, p) ==
    [os EXCEPT !.alive = @ \ {p},
               !.win = [h \in Hwnds |-> IF @[h].pid = p THEN NoWin ELSE @[h]]]

close_window(os, h, orc) ==
    LET o == Call(os, "close_window", h)
    IN IF is_window(os.win, h) /\ h \in orc.closeOk
       THEN [o EXCEPT !.win[h] = NoWin]
       ELSE o

RECURSIVE close_windows(_, _, _)
close_windows(os, ws, orc) ==
    IF ws = <<>> THEN os
    ELSE close_windows(close_window(os, Head(ws).hwnd, orc), Tail(ws), orc)

terminate_process(os, p, orc) ==
    LET o == Call(os, "terminate_process", p)
    IN IF p \in orc.killOk /\ (p \in os.alive \/ p = ExtPid)
       THEN ProcessDies(o, p)
       ELSE o

\* the OS state after _force_kill(record); the record's window map ends empty
force_kill(os, rec, orc) ==
    LET o1 == IF has_live_process(os.alive, rec)
              THEN (IF rec.proc \in orc.killOk
                    THEN ProcessDies(Call(os, "kill", rec.proc), rec.proc)
                    ELSE Call(os, "kill", rec.proc))
              ELSE IF rec.pid # 0
                   THEN terminate_process(os, rec.pid, orc)
                   ELSE os
    IN close_windows(o1, rec.windows, orc)

RECURSIVE force_kill_all(_, _, _)
force_kill_all(os, recs, orc) ==
    IF recs = <<>> THEN os
    ELSE force_kill_all(force_kill(os, Head(recs), orc), Tail(recs), orc)

\* one round of close()'s loop over the selected records
CloseRecordNeverForcing(os, rec, force, orc) ==
    IF has_live_process(os.alive, rec)
    THEN (IF rec.proc \in orc.termOk
          THEN close_windows(ProcessDies(Call(os, "terminate", rec.proc), rec.proc),
                             rec.windows, orc)
          ELSE close_windows(Call(os, "terminate", rec.proc), rec.windows, orc))
    ELSE close_windows(os, rec.windows, orc)

CloseRecordAlwaysForcing(os, rec, force, orc) ==
    IF has_live_process(os.alive, rec)
    THEN (IF rec.proc \in orc.termOk
          THEN close_windows(ProcessDies(Call(os, "terminate", rec.proc), rec.proc),
                             rec.windows, orc)
          ELSE force_kill(Call(os, "terminate", rec.proc), rec, orc))
    ELSE close_windows(os, rec.windows, orc)

close_record(os, rec, force, orc) ==
    IF has_live_process(os.alive, rec)
    THEN (IF rec.proc \in orc.termOk
          THEN close_windows(ProcessDies(Call(os, "terminate", rec.proc), rec.proc),
                             rec.windows, orc)
          ELSE IF force
               THEN force_kill(Call(os, "terminate", rec.proc), rec, orc)
               ELSE close_windows(Call(os, "terminate", rec.proc), rec.windows, orc))
    ELSE close_windows(os, rec.windows, orc)

RECURSIVE close_all(_, _, _, _)
close_all(os, recs, force, orc) ==
    IF recs = <<>> THEN os
    ELSE close_all(close_record(os, Head(recs), force, orc), Tail(recs), force, orc)

ClearWindows(rec) == [rec EXCEPT !.windows = <<>>]

\* Every read of a record's window map is preceded by update_windows
\* (_purge_stopped, _remove_inactive_records, _ensure_running_record,
\* _primary_window), so the copy left between two calls is never observed:
\* the state keeps the records without it.
Stored(run) ==
    [n \in Names |-> [i \in 1..Len(run[n]) |-> ClearWindows(run[n][i])]]

Reg == [running |-> running, instances |-> instances]
Os == [alive |-> alive, win |-> win, calls |-> <<>>]

(***************************************************************************)
(* Record selection                                                        *)
(***************************************************************************)
Target(kind, v) == [kind |-> kind, v |-> v]
Latest == Target("latest", 0)

AllRecords(reg) ==
    UNION {{reg.running[n][i] : i \in 1..Len(reg.running[n])} : n \in Names}

\* self._instances.get(target)
InstanceLookup(reg, id) ==
    IF id \in reg.instances /\ \E r \in AllRecords(reg) : r.id = id
    THEN CHOOSE r \in AllRecords(reg) : r.id = id
    ELSE NoRecord

RECURSIVE FirstWithPid(_, _)
FirstWithPid(recs, p) ==
    IF recs = <<>> THEN NoRecord
    ELSE IF Head(recs).pid = p THEN Head(recs)
    ELSE FirstWithPid(Tail(recs), p)

\* reg is the registry after _select_record's purge; NoRecord stands for None
select_record(reg, name, target) ==
    LET recs == reg.running[name]
    IN IF recs = <<>> THEN NoRecord
       ELSE IF target.kind = "latest" THEN recs[Len(recs)]
       ELSE IF target.kind = "first" THEN recs[1]
       ELSE IF target.kind \in {"pid", "digits"} THEN FirstWithPid(recs, target.v)
       ELSE InstanceLookup(reg, target.v)

\* _select_records: the registry after its purge, and the records selected
SelectRecordsUnpurged(reg, os, name, all) ==
    LET recs == reg.running[name]
    IN [reg |-> reg,
        sel |-> IF recs = <<>> THEN <<>>
                ELSE IF all THEN recs
                ELSE <<recs[Len(recs)]>>]

select_records(reg, os, name, all) ==
    LET r1 == purge_stopped(reg, os, name)
        recs == r1.running[name]
    IN [reg |-> r1,
        sel |-> IF recs = <<>> THEN <<>>
                ELSE IF all THEN recs
                ELSE <<recs[Len(recs)]>>]

PutRecord(reg, rec) ==
    [reg EXCEPT !.running[rec.app] =
        [i \in 1..Len(@) |-> IF @[i].id = rec.id THEN rec ELSE @[i]]]

primary_window(rec, vis) ==
    LET Front(s) == s.hwnd \in vis
        front == SelectSeq(rec.windows, Front)
    IN IF front # <<>> THEN front[1].hwnd
       ELSE IF rec.windows # <<>> THEN rec.windows[1].hwnd
       ELSE 0

(***************************************************************************)
(* The registry's operations as functions of the state they start in.      *)
(* Each yields the registry and OS state it leaves, the error it raised    *)
(* ("none" when it returned), the record it returned and its value.        *)
(***************************************************************************)
Out(reg, os, err, rec, val, spawned) ==
    [reg |-> reg, os |-> os, err |-> err, rec |-> rec, val |-> val,
     flag |-> val # <<>>, spawned |-> spawned]

Raise(reg, os, err) == Out(reg, os, err, NoRecord, <<>>, FALSE)

Ids(recs) == [i \in 1..Len(recs) |-> recs[i].id]

\* the single-instance policy checks of start()
DetectBlocksSecondRecord(pol, name, run) == pol[name] = "detect" /\ Len(run) > 1

DetectBlocks(pol, name, run) == pol[name] = "detect" /\ run # <<>>

ForceRestarts(pol, name, run) == pol[name] = "force" /\ run # <<>>

\* start(), once the single-instance policy let it pass: launch and record
Launch(reg, os, name, orc, p) ==
    IF ~orc.spawnOk THEN Raise(reg, Call(os, "popen", p), "launch_failed")
    ELSE LET o3 == [Call(os, "popen", p) EXCEPT !.alive = @ \cup {p}]
             rec == update_windows(o3.win, NewRecord(name, p), TRUE, orc.visible)
         IN Out([running |-> [reg.running EXCEPT ![name] = Append(@, rec)],
                 instances |-> reg.instances \cup {rec.id}],
                o3, "none", rec, <<>>, TRUE)

StartOutcome(reg, os, pol, name, orc, p) ==
    IF name \notin Configured THEN Raise(reg, os, "unknown_app")
    ELSE IF name = DisabledApp THEN Raise(reg, os, "disabled")
    ELSE LET r1 == remove_inactive_records(purge_stopped(reg, os, name), os, name)
             run == r1.running[name]
         IN IF DetectBlocks(pol, name, run)
            THEN Raise(r1, os, "already_running")
            ELSE IF ForceRestarts(pol, name, run)
            THEN LET o2 == force_kill_all(os, run, orc)
                 IN Launch(purge_stopped(r1, o2, name), o2, name, orc, p)
            ELSE Launch(r1, os, name, orc, p)

\* _ensure_running_record: [reg, rec, err]
ensure_running_record(reg, os, name, target) ==
    LET r1 == purge_stopped(reg, os, name)
        sel == select_record(r1, name, target)
        u == update_windows(os.win, sel, FALSE, {})
    IN IF target.kind = "other" /\ r1.running[name] # <<>>
       THEN [reg |-> r1, rec |-> NoRecord, err |-> "bad_target"]
       ELSE IF sel = NoRecord
       THEN [reg |-> r1, rec |-> NoRecord, err |-> "not_running"]
       ELSE IF has_live_process(os.alive, u) \/ u.windows # <<>>
       THEN [reg |-> PutRecord(r1, u), rec |-> u, err |-> "none"]
       ELSE [reg |-> purge_stopped(PutRecord(r1, u), os, name),
             rec |-> NoRecord, err |-> "not_running"]

OsCallOf(op) == IF op = "focus" THEN "bring_to_foreground" ELSE op

\* focus / minimize / maximize / restore
ShowOutcome(reg, os, op, name, target, orc) ==
    LET e == ensure_running_record(reg, os, name, target)
        hwnd == primary_window(e.rec, orc.visible)
        rec == IF op = "focus" THEN [e.rec EXCEPT !.focused = TRUE] ELSE e.rec
    IN IF e.err # "none" THEN Raise(e.reg, os, e.err)
       ELSE Out(PutRecord(e.reg, rec),
                IF hwnd # 0 THEN Call(os, OsCallOf(op), hwnd) ELSE os,
                "none", rec, <<>>, FALSE)

CloseOutcome(reg, os, name, force, all, orc) ==
    LET s == select_records(reg, os, name, all)
        o2 == close_all(os, s.sel, force, orc)
    IN IF s.sel = <<>> THEN Raise(s.reg, os, "not_running")
       ELSE Out(purge_stopped(s.reg, o2, name), o2, "none", NoRecord, <<>>, FALSE)

KillOutcome(reg, os, name, all, orc) ==
    LET s == select_records(reg, os, name, all)
        o2 == force_kill_all(os, s.sel, orc)
    IN IF s.sel = <<>> THEN Raise(s.reg, os, "not_running")
       ELSE Out(purge_stopped(s.reg, o2, name), o2, "none", NoRecord, <<>>, FALSE)

\* running_processes: val lists the instance ids of the records returned;
\* is_running: flag is the boolean returned
running_processes(reg, os, name) ==
    LET r1 == purge_stopped(reg, os, name)
    IN Out(r1, os, "none", NoRecord, Ids(r1.running[name]), FALSE)

is_running(reg, os, name) ==
    LET r1 == purge_stopped(reg, os, name)
    IN [Out(r1, os, "none", NoRecord, <<>>, FALSE) EXCEPT !.flag = r1.running[name] # <<>>]

(***************************************************************************)
(* Calls.  A call runs to completion in one step and leaves its result in  *)
(* ret; Return hands the result to the caller and the registry is idle     *)
(* again.  ret.pre is the state the call began in.                         *)
(***************************************************************************)
NoArgs == [target |-> Latest, force |-> FALSE, all |-> FALSE]

Idle ==
    [op |-> "idle", name |-> "none", args |-> NoArgs, orc |-> NoOracle,
     err |-> "none", rec |-> NoRecord, val |-> <<>>, flag |-> FALSE, calls |-> <<>>,
     pre |-> [running |-> <<>>, instances |-> {}, alive |-> {}, win |-> <<>>]]

Returned(op, name, args, orc, out) ==
    [op |-> op, name |-> name, args |-> args, orc |-> orc,
     err |-> out.err, rec |-> out.rec, val |-> out.val, flag |-> out.flag,
     calls |-> out.os.calls,
     pre |-> [running |-> running, instances |-> instances, alive |-> alive, win |-> win]]

Commit(op, name, args, orc, out) ==
    /\ running' = Stored(out.reg.running)
    /\ instances' = out.reg.instances
    /\ alive' = out.os.alive
    /\ win' = out.os.win
    /\ nextPid' = IF out.spawned THEN nextPid + 1 ELSE nextPid
    /\ ret' = Returned(op, name, args, orc, out)
    /\ UNCHANGED <<policy, notReg>>

\* the records of `name` as a call on it first sees them (after its purge)
Seen(name) == purge_stopped(Reg, Os, name).running[name]
Procs(recs) == {recs[i].proc : i \in 1..Len(recs)}
Pids(recs) == {recs[i].pid : i \in 1..Len(recs)}
Chosen(name, all) == select_records(Reg, Os, name, all).sel
\* visibility only decides anything when there is more than one window
VisibleChoices(name) ==
    IF Cardinality(OpenWindows(win, name)) > 1 THEN SUBSET OpenWindows(win, name) ELSE {{}}

Start(name) ==
    /\ ret.op = "idle"
    /\ \E forced \in {(IF name \in Apps THEN policy[name] = "force" /\ Seen(name) # <<>>
                         ELSE FALSE)} :
       \E k \in (IF forced THEN SUBSET ((Procs(Seen(name)) \cup Pids(Seen(name)))
                                          \cap (alive \cup {ExtPid}))
                 ELSE {{}}),
          c \in (IF forced THEN SUBSET OpenWindows(win, name) ELSE {{}}),
          s \in BOOLEAN :
       \E v \in (IF s THEN SUBSET OpenWindows(win, name) ELSE {{}}) :
       \E out \in {StartOutcome(Reg, Os, policy, name, Oracle({}, k, c, s, v), nextPid)} :
          /\ out.spawned => nextPid <= MaxProc
          /\ Commit("start", name, NoArgs, Oracle({}, k, c, s, v), out)

ShowOps == {"focus", "minimize", "maximize", "restore"}

Targets ==
    {Latest, Target("first", 0), Target("other", 0)}
        \cup {Target(k, v) : k \in {"pid", "digits"}, v \in 1..ExtPid}
        \cup {Target("id", v) : v \in ProcIds}

\* a name with no record resolves every target and flag the same way
TargetsFor(name) == IF name \in Apps THEN Targets ELSE {Latest}
FlagsFor(name) == IF name \in Apps THEN BOOLEAN ELSE {FALSE}

Show(op, name, target) ==
    /\ ret.op = "idle"
    /\ \E v \in VisibleChoices(name) :
       \E out \in {ShowOutcome(Reg, Os, op, name, target, Oracle({}, {}, {}, TRUE, v))} :
          Commit(op, name, [NoArgs EXCEPT !.target = target],
                 Oracle({}, {}, {}, TRUE, v), out)

Close(name, force, all) ==
    /\ ret.op = "idle"
    /\ \E t \in SUBSET (Procs(Chosen(name, all)) \cap alive) :
       \E k \in (IF force THEN SUBSET ((Procs(Chosen(name, all)) \cap alive) \ t) ELSE {{}}),
          c \in SUBSET OpenWindows(win, name) :
       \E out \in {CloseOutcome(Reg, Os, name, force, all, Oracle(t, k, c, TRUE, {}))} :
          Commit("close", name, [NoArgs EXCEPT !.force = force, !.all = all],
                 Oracle(t, k, c, TRUE, {}), out)

Kill(name, all) ==
    /\ ret.op = "idle"
    /\ \E k \in SUBSET ((Procs(Chosen(name, all)) \cup Pids(Chosen(name, all)))
                          \cap (alive \cup {ExtPid})),
          c \in SUBSET OpenWindows(win, name) :
       \E out \in {KillOutcome(Reg, Os, name, all, Oracle({}, k, c, TRUE, {}))} :
          Commit("kill", name, [NoArgs EXCEPT !.all = all], Oracle({}, k, c, TRUE, {}), out)

IsRunning(name) ==
    /\ ret.op = "idle"
    /\ Commit("is_running", name, NoArgs, NoOracle, is_running(Reg, Os, name))

RunningProcesses(name) ==
    /\ ret.op = "idle"
    /\ Commit("running_processes", name, NoArgs, NoOracle, running_processes(Reg, Os, name))

Return ==
    /\ ret.op # "idle"
    /\ ret' = Idle
    /\ UNCHANGED <<policy, alive, win, nextPid, running, instances, notReg>>

(***************************************************************************)
(* The environment: processes exit, windows open and close on their own.   *)
(***************************************************************************)
EnvProcExit ==
    /\ ret.op = "idle"
    /\ \E p \in alive :
        /\ alive' = alive \ {p}
        /\ win' = ProcessDies(Os, p).win
    /\ UNCHANGED <<policy, nextPid, running, instances, ret, notReg>>

EnvWindowOpen ==
    /\ ret.op = "idle"
    /\ \E h \in Hwnds, name \in Apps, p \in alive \cup {ExtPid} :
        /\ win[h] = NoWin
        /\ \A g \in 1..(h - 1) : win[g] # NoWin      \* the lowest free handle
        /\ win' = [win EXCEPT ![h] = [app |-> name, pid |-> p]]
    /\ UNCHANGED <<policy, alive, nextPid, running, instances, ret, notReg>>

EnvWindowClose ==
    /\ ret.op = "idle"
    /\ \E h \in Hwnds :
        /\ win[h] # NoWin
        /\ win' = [win EXCEPT ![h] = NoWin]
    /\ UNCHANGED <<policy, alive, nextPid, running, instances, ret, notReg>>

RegIdle ==
    /\ alive = {}
    /\ win = [h \in Hwnds |-> NoWin]
    /\ nextPid = 1
    /\ running = [n \in Names |-> <<>>]
    /\ instances = {}
    /\ ret = Idle

(***************************************************************************)
(* UI Interaction Engine (agent/runner/ui_engine.py).                      *)
(* element.does[m] is what the call of strategy m on the element does:     *)
(* returns a truthy value, returns a falsy value, or raises.               *)
(***************************************************************************)
INVOKE == "invoke"
TOGGLE == "toggle"
SELECTION == "selection_item"
MSAA == "msaa"
BM_CLICK == "bm_click"
FOCUS_TAP == "focus_tap"
ClickMethod == {INVOKE, TOGGLE, SELECTION, MSAA, BM_CLICK, FOCUS_TAP}

resolution_order == <<INVOKE, TOGGLE, SELECTION, MSAA, BM_CLICK>>

StrategyResults == {"truthy", "falsy", "raises"}
UIElementHandle == [is_enabled : BOOLEAN, does : [ClickMethod -> StrategyResults]]

ClickReturned(method, attempted) ==
    [status |-> "returned", method |-> method, error |-> "none", attempted |-> attempted]
ClickRaised(error, attempted) ==
    [status |-> "raised", method |-> "none", error |-> error, attempted |-> attempted]
NoClick == [status |-> "idle", method |-> "none", error |-> "none", attempted |-> <<>>]

\* the for loop over resolution_order from position i on
RECURSIVE TryFromAnyResult(_, _, _)
TryFromAnyResult(el, i, attempted) ==
    IF i > Len(resolution_order) THEN ClickRaised("none", attempted)
    ELSE IF el.does[resolution_order[i]] # "raises"
         THEN ClickReturned(resolution_order[i], Append(attempted, resolution_order[i]))
         ELSE TryFromAnyResult(el, i + 1, Append(attempted, resolution_order[i]))

RECURSIVE TryFrom(_, _, _)
TryFrom(el, i, attempted) ==
    IF i > Len(resolution_order) THEN ClickRaised("none", attempted)
    ELSE IF el.does[resolution_order[i]] = "truthy"
         THEN ClickReturned(resolution_order[i], Append(attempted, resolution_order[i]))
         ELSE TryFrom(el, i + 1, Append(attempted, resolution_order[i]))

\* click() past the is_enabled test
ClickEnabled(el, allow) ==
    LET p == TryFrom(el, 1, <<>>)
    IN IF p.status = "returned" THEN p
       ELSE IF allow
       THEN (IF el.does[FOCUS_TAP] = "truthy"
             THEN ClickReturned(FOCUS_TAP, Append(p.attempted, FOCUS_TAP))
             ELSE IF el.does[FOCUS_TAP] = "raises"
             THEN ClickRaised("focus_tap_exception", Append(p.attempted, FOCUS_TAP))
             ELSE ClickRaised("unresolved", Append(p.attempted, FOCUS_TAP)))
       ELSE ClickRaised("unresolved", p.attempted)

ClickIgnoringEnabled(el, allow) == ClickEnabled(el, allow)

click(el, allow) ==
    IF ~el.is_enabled THEN ClickRaised("disabled", <<>>)
    ELSE ClickEnabled(el, allow)

Click ==
    /\ clickRet = NoClick
    /\ clickRet' = click(element, allow_focus_tap)
    /\ UNCHANGED <<element, allow_focus_tap, notUi>>

ClickDone ==
    /\ clickRet # NoClick
    /\ clickRet' = NoClick
    /\ UNCHANGED <<element, allow_focus_tap, notUi>>

UiIdle ==
    /\ element = [is_enabled |-> TRUE, does |-> [m \in ClickMethod |-> "truthy"]]
    /\ allow_focus_tap = FALSE
    /\ clickRet = NoClick

(***************************************************************************)
(* Recipe Runner (agent/runner/steps.py) over the State Store's activity   *)
(* trail (agent/state/store.py).                                           *)
(* A step of the recipe file is described by its shape (what run_recipe's  *)
(* checks find), its name, and what its handler does: raises = "none" when *)
(* the handler returns, else the message of the exception it raises.       *)
(***************************************************************************)
MaxSteps == 3       \* steps in the recipe
MaxRuns == 2        \* run_recipe calls on one State Store
MaxLimit == 2       \* history_limit ranges over 0..MaxLimit

StepNames == {"app.start", "assert.expr"}
Messages == {"e1", "e2"}
BadShapes == {"not_mapping", "not_single_key", "unsupported", "payload_not_mapping"}

Step(shape, name, raises) == [shape |-> shape, name |-> name, raises |-> raises]
Steps ==
    {Step("ok", n, m) : n \in StepNames, m \in {"none"} \cup Messages}
        \cup {Step(sh, "?", "none") : sh \in BadShapes}
Recipes == UNION {[1..n -> Steps] : n \in 0..MaxSteps}

\* ActivityRecord; run tells the run_recipe call that created the record
\* (it stands for started_at), step_index is metadata["step_index"],
\* completed_at tells whether the completion time is set
Activity(name, status, error, idx, run) ==
    [name |-> name, status |-> status, error |-> error, step_index |-> idx, run |-> run,
     completed_at |-> FALSE]
NoActivity == Activity("none", "none", "none", 0, 0)
NoError == [from |-> "none", msg |-> "none"]

Trim(h, limit) ==
    IF limit # 0 /\ Len(h) > limit THEN SubSeq(h, Len(h) - limit + 1, Len(h)) ELSE h

\* StateStore._end_activity: [current, history, ok]
EndActivityPrepending(cur, hist, limit, rec, status, error) ==
    IF cur # rec
    THEN [current |-> cur, history |-> hist, ok |-> FALSE]
    ELSE [current |-> NoActivity,
          history |-> Trim(<<[rec EXCEPT !.status = status, !.error = error, !.completed_at = TRUE]>> \o hist, limit),
          ok |-> TRUE]

EndActivityLeavesCurrent(cur, hist, limit, rec, status, error) ==
    IF cur # rec
    THEN [current |-> cur, history |-> hist, ok |-> FALSE]
    ELSE [current |-> cur,
          history |-> Trim(Append(hist, [rec EXCEPT !.status = status, !.error = error,
                                                    !.completed_at = TRUE]), limit),
          ok |-> TRUE]

end_activity(cur, hist, limit, rec, status, error) ==
    IF cur # rec
    THEN [current |-> cur, history |-> hist, ok |-> FALSE]
    ELSE [current |-> NoActivity,
          history |-> Trim(Append(hist, [rec EXCEPT !.status = status, !.error = error, !.completed_at = TRUE]), limit),
          ok |-> TRUE]

\* StateStore.activity around one handler call: what leaving the with block
\* does.  [current, history, raised, error]
ActivityExitSwallowing(cur, hist, limit, rec, raises) ==
    LET e == end_activity(cur, hist, limit, rec,
                          IF raises # "none" THEN "failed" ELSE "succeeded", raises)
    IN [current |-> e.current, history |-> e.history, raised |-> FALSE, error |-> NoError]

activity_exit(cur, hist, limit, rec, raises) ==
    LET e == end_activity(cur, hist, limit, rec,
                          IF raises # "none" THEN "failed" ELSE "succeeded", raises)
    IN IF ~e.ok
       THEN [current |-> e.current, history |-> e.history, raised |-> TRUE,
             error |-> [from |-> "store", msg |-> "not_current"]]
       ELSE [current |-> e.current, history |-> e.history, raised |-> raises # "none",
             error |-> IF raises # "none" THEN [from |-> "handler", msg |-> raises]
                       ELSE NoError]

\* run_recipe starts: the file is read, the loop is at its first step
RunRecipe ==
    /\ runState # "running"
    /\ runs < MaxRuns
    /\ runs' = runs + 1
    /\ runState' = "running"
    /\ runErr' = NoError
    /\ stepIdx' = 1
    /\ handlerLog' = <<>>
    /\ UNCHANGED <<recipe, history_limit, current, history, completed, notRcp>>

StepBeginSkipsUnsupported ==
    /\ runState = "running"
    /\ current = NoActivity
    /\ stepIdx <= Len(recipe)
    /\ IF recipe[stepIdx].shape = "unsupported"
       THEN /\ stepIdx' = stepIdx + 1
            /\ UNCHANGED <<runState, runErr, current>>
       ELSE IF recipe[stepIdx].shape # "ok"
       THEN /\ runState' = "raised"
            /\ runErr' = [from |-> "dispatch", msg |-> recipe[stepIdx].shape]
            /\ UNCHANGED <<current, stepIdx>>
       ELSE /\ current' = Activity(recipe[stepIdx].name, "running", "none", stepIdx, runs)
            /\ UNCHANGED <<runState, runErr, stepIdx>>
    /\ UNCHANGED <<recipe, history_limit, runs, history, handlerLog, completed, notRcp>>

\* the checks on the step and, when it passes them, entering activity()
StepBegin ==
    /\ runState = "running"
    /\ current = NoActivity
    /\ stepIdx <= Len(recipe)
    /\ IF recipe[stepIdx].shape # "ok"
       THEN /\ runState' = "raised"
            /\ runErr' = [from |-> "dispatch", msg |-> recipe[stepIdx].shape]
            /\ UNCHANGED current
       ELSE /\ current' = Activity(recipe[stepIdx].name, "running", "none", stepIdx, runs)
            /\ UNCHANGED <<runState, runErr>>
    /\ UNCHANGED <<recipe, history_limit, runs, stepIdx, history, handlerLog, completed, notRcp>>

\* the handler runs and activity() is left
StepEnd ==
    /\ runState = "running"
    /\ current # NoActivity
    /\ \E x \in {activity_exit(current, history, history_limit, current,
                               recipe[stepIdx].raises)} :
        /\ current' = x.current
        /\ history' = x.history
        /\ runState' = IF x.raised THEN "raised" ELSE "running"
        /\ runErr' = x.error
        /\ stepIdx' = IF x.raised THEN stepIdx ELSE stepIdx + 1
    /\ handlerLog' = Append(handlerLog, stepIdx)
    /\ completed' = Append(completed, [current EXCEPT
                                         !.status = IF recipe[stepIdx].raises # "none"
                                                    THEN "failed" ELSE "succeeded",
                                         !.error = recipe[stepIdx].raises,
                                         !.completed_at = TRUE])
    /\ UNCHANGED <<recipe, history_limit, runs, notRcp>>

\* the loop is through: run_recipe returns
RunReturn ==
    /\ runState = "running"
    /\ current = NoActivity
    /\ stepIdx > Len(recipe)
    /\ runState' = "returned"
    /\ UNCHANGED <<recipe, history_limit, runs, runErr, stepIdx, current, history,
                   handlerLog, completed, notRcp>>

RcpIdle ==
    /\ recipe = <<>>
    /\ history_limit = 0
    /\ runs = 0
    /\ runState = "idle"
    /\ runErr = NoError
    /\ stepIdx = 0
    /\ current = NoActivity
    /\ history = <<>>
    /\ handlerLog = <<>>
    /\ completed = <<>>

(***************************************************************************)
(* Intent Watcher (agent/runner/intent_watcher.py) over the watch and      *)
(* archive directories.  A file is what it deserializes to (content) and,  *)
(* as history of the file, how often its recipe ran to completion (runs).  *)
(*   content "unreadable" - open() or yaml.safe_load raises                *)
(*           "blank"      - safe_load gives None or ""                     *)
(*           "not_mapping"- safe_load gives a value that is no dict        *)
(*           a payload    - a dict: its intent and the kind of its args    *)
(* Intents: "missing" is a payload without (or with a falsy) intent field, *)
(* "unmapped" is not in the mapping, "norecipe" is mapped to a recipe file *)
(* that does not exist, "failing" to a recipe with a failing step, "demo"  *)
(* to a recipe that succeeds.                                              *)
(***************************************************************************)
READ_RETRY_ATTEMPTS == 10
MaxEnv == 3          \* operations of producers and duplicate events delivered

FileNames == {"f1", "f2"}
DirName == "subdir"

IntentNames == {"missing", "unmapped", "norecipe", "failing", "demo"}
Mappings == {"norecipe", "failing", "demo"}
ArgKinds == {"absent", "mapping", "falsy_other", "truthy_other"}
Content(kind, intent, args) == [kind |-> kind, intent |-> intent, args |-> args]
Raw(kind) == Content(kind, "none", "none")
Payload(intent, args) == Content("mapping", intent, args)
RawContents == {Raw("unreadable"), Raw("blank"), Raw("not_mapping")}
Payloads ==
    {Payload(i, "absent") : i \in IntentNames} \cup {Payload("demo", a) : a \in ArgKinds}
NoData == Raw("none")
Contents == RawContents \cup Payloads

IntentFile(content, n) == [content |-> content, runs |-> n]
NoFile == IntentFile(NoData, 0)

RecipeExists(intent) == intent # "norecipe"
RecipeRaises(intent) == intent = "failing"

\* one pass of the loop of _load_intent_payload over the file at the path
LoadAttemptNoBlankRetry(file) ==
    IF file = NoFile THEN [next |-> "retry", error |-> "FileNotFoundError"]
    ELSE IF file.content.kind = "unreadable" THEN [next |-> "retry", error |-> "YAMLError"]
    ELSE IF file.content.kind = "blank" THEN [next |-> "raise", error |-> "TypeError"]
    ELSE IF file.content.kind = "not_mapping" THEN [next |-> "raise", error |-> "TypeError"]
    ELSE [next |-> "return", error |-> "none"]

load_attempt(file) ==
    IF file = NoFile THEN [next |-> "retry", error |-> "FileNotFoundError"]
    ELSE IF file.content.kind = "unreadable" THEN [next |-> "retry", error |-> "YAMLError"]
    ELSE IF file.content.kind = "blank" THEN [next |-> "retry", error |-> "none"]
    ELSE IF file.content.kind = "not_mapping" THEN [next |-> "raise", error |-> "TypeError"]
    ELSE [next |-> "return", error |-> "none"]

\* the end of the loop of _load_intent_payload: more attempts, or giving up
after_attempts(attempt, last_error) ==
    IF attempt < READ_RETRY_ATTEMPTS THEN "retry"
    ELSE IF last_error # "none" THEN last_error
    ELSE "RuntimeError_empty"

\* context = data.get("args") or {}
ContextOf(args) == IF args \in {"absent", "falsy_other"} THEN "mapping" ELSE args

\* _process_intent after the payload is loaded, up to the call of run_recipe:
\* the exception raised, or "run"
ValidateNoMappingCheck(data) ==
    IF data.intent = "missing" THEN "RuntimeError_missing_intent"
    ELSE IF ContextOf(data.args) # "mapping" THEN "TypeError_args"
    ELSE IF ~RecipeExists(data.intent) THEN "FileNotFoundError_recipe"
    ELSE "run"

validate_intent(data) ==
    IF data.intent = "missing" THEN "RuntimeError_missing_intent"
    ELSE IF data.intent \notin Mappings THEN "RuntimeError_unmapped"
    ELSE IF ContextOf(data.args) # "mapping" THEN "TypeError_args"
    ELSE IF ~RecipeExists(data.intent) THEN "FileNotFoundError_recipe"
    ELSE "run"

\* path.rename(archive_path): whether it raises
rename_raises(dir, arch, path, replaces) ==
    \/ dir[path] = NoFile
    \/ arch[path] # NoFile /\ ~replaces

\* the except clause of on_created
CatchesRuntimeErrorOnly(error) ==
    error \in {"RuntimeError_missing_intent", "RuntimeError_unmapped", "RuntimeError_empty",
               "RecipeExecutionError"}

caught(error) == error # "KeyboardInterrupt"

NotHandling == [pc |-> "idle", path |-> "none", attempt |-> 0, last_error |-> "none",
                data |-> NoData]

\* what the create-event handler did, kept until it has returned
Handled(path, error, attempts, ran, dir, arch) ==
    [path |-> path, error |-> error, attempts |-> attempts, ran |-> ran,
     dir |-> dir, arch |-> arch]
NoneHandled == Handled("none", "none", 0, "no", <<>>, <<>>)

\* the move to the archive: path.rename(archive_path)
ArchiveByCopy(dir, arch, path) ==
    [dir |-> dir, arch |-> [arch EXCEPT ![path] = dir[path]]]

archive_move(dir, arch, path) ==
    [dir |-> [dir EXCEPT ![path] = NoFile], arch |-> [arch EXCEPT ![path] = dir[path]]]

\* the handler is left: by return, or by an exception that on_created
\* catches (and logs) or lets through to the observer thread
Finish(error, attempts, ran) ==
    /\ handled' = Handled(handling.path, error, attempts, ran, intentsDir, archiveDir)
    /\ handling' = NotHandling
    /\ watching' = (error = "none" \/ caught(error))

\* on_created is called with a pending create event
OnCreated(p) ==
    /\ watching
    /\ handling.pc = "idle" /\ handled = NoneHandled
    /\ p \in events
    /\ events' = events \ {p}
    /\ IF p = DirName
       THEN /\ handled' = Handled(p, "none", 0, "no", intentsDir, archiveDir)
            /\ UNCHANGED handling
       ELSE /\ handling' = [NotHandling EXCEPT !.pc = "loading", !.path = p]
            /\ UNCHANGED handled
    /\ UNCHANGED <<intentsDir, archiveDir, renameReplaces, envOps, watching, notWatch>>

\* one attempt of _load_intent_payload
LoadAttempt ==
    /\ handling.pc = "loading"
    /\ \E r \in {load_attempt(intentsDir[handling.path])} :
       \E n \in {handling.attempt + 1} :
       \E le \in {IF r.error # "none" THEN r.error ELSE handling.last_error} :
          CASE r.next = "return" ->
                  /\ handling' = [handling EXCEPT !.pc = "loaded", !.attempt = n,
                                                  !.data = intentsDir[handling.path].content]
                  /\ UNCHANGED <<handled, watching>>
            [] r.next = "raise" -> Finish(r.error, n, "no")
            [] OTHER ->
                  IF after_attempts(n, le) = "retry"
                  THEN /\ handling' = [handling EXCEPT !.attempt = n, !.last_error = le]
                       /\ UNCHANGED <<handled, watching>>
                  ELSE Finish(after_attempts(n, le), n, "no")
    /\ UNCHANGED <<intentsDir, archiveDir, events, renameReplaces, envOps, notWatch>>

\* _process_intent from the loaded payload on: checks, run_recipe, archive
ProcessIntent ==
    /\ handling.pc = "loaded"
    /\ \E v \in {validate_intent(handling.data)} :
       \E p \in {handling.path} :
          IF v # "run"
          THEN /\ Finish(v, handling.attempt, "no")
               /\ UNCHANGED <<intentsDir, archiveDir>>
          ELSE IF RecipeRaises(handling.data.intent)
          THEN /\ Finish("RecipeExecutionError", handling.attempt, "failed")
               /\ UNCHANGED <<intentsDir, archiveDir>>
          ELSE \E ran \in {IF intentsDir[p] = NoFile THEN intentsDir
                           ELSE [intentsDir EXCEPT ![p].runs = @ + 1]} :
               IF rename_raises(ran, archiveDir, p, renameReplaces)
               THEN /\ Finish("OSError_rename", handling.attempt, "succeeded")
                    /\ intentsDir' = ran
                    /\ UNCHANGED archiveDir
               ELSE /\ Finish("none", handling.attempt, "succeeded")
                    /\ intentsDir' = archive_move(ran, archiveDir, p).dir
                    /\ archiveDir' = archive_move(ran, archiveDir, p).arch
    /\ UNCHANGED <<events, renameReplaces, envOps, notWatch>>

\* on_created has returned to the observer
WatcherReturn ==
    /\ handled # NoneHandled
    /\ handled' = NoneHandled
    /\ UNCHANGED <<intentsDir, archiveDir, events, handling, renameReplaces, envOps,
                   watching, notWatch>>

\* a producer creates a file in the watch directory: complete, or not yet
ProducerCreate(name, content) ==
    /\ handled = NoneHandled /\ envOps < MaxEnv
    /\ intentsDir[name] = NoFile
    /\ intentsDir' = [intentsDir EXCEPT ![name] = IntentFile(content, 0)]
    /\ events' = events \cup {name}
    /\ envOps' = envOps + 1
    /\ UNCHANGED <<archiveDir, handling, handled, renameReplaces, watching, notWatch>>

\* a producer goes on writing a file that is not complete
ProducerWrite(name, content) ==
    /\ handled = NoneHandled /\ envOps < MaxEnv
    /\ intentsDir[name] # NoFile
    /\ intentsDir[name].content.kind \in {"unreadable", "blank"}
    /\ content # intentsDir[name].content
    /\ intentsDir' = [intentsDir EXCEPT ![name].content = content]
    /\ envOps' = envOps + 1
    /\ UNCHANGED <<archiveDir, events, handling, handled, renameReplaces, watching, notWatch>>

\* the observer delivers a create event again, or one for a subdirectory
DuplicateEvent(name) ==
    /\ handled = NoneHandled /\ envOps < MaxEnv
    /\ name \notin events
    /\ events' = events \cup {name}
    /\ envOps' = envOps + 1
    /\ UNCHANGED <<intentsDir, archiveDir, handling, handled, renameReplaces, watching,
                   notWatch>>

WatchIdle ==
    /\ intentsDir = [n \in FileNames |-> NoFile]
    /\ archiveDir = [n \in FileNames |-> NoFile]
    /\ events = {}
    /\ handling = NotHandling
    /\ handled = NoneHandled
    /\ renameReplaces = FALSE
    /\ envOps = 0
    /\ watching = TRUE

(***************************************************************************)
(* Chat Intent Bridge (agent/runner/chat_bridge.py) with the command       *)
(* parser (agent/runner/chat_commands.py).  A transcript is the sequence   *)
(* of its pieces: plain text, or a bracketed command [macro:name k=v ...]  *)
(* with the name and the key=value pairs as typed.                         *)
(***************************************************************************)
WRITE_ATTEMPTS == 100
MaxTokens == 2       \* pieces of one transcript
MaxCalls == 2        \* process_transcript calls on one bridge
MaxClock == 2        \* distinct seconds of the bridge's clock
Timestamps == 1..MaxClock

RawNames == {"demo", "DEMO", "other", "list_intents"}
\* str.lower() on the names and keys used here
Lower(s) == IF s = "DEMO" THEN "demo" ELSE IF s = "SYMBOL" THEN "symbol" ELSE s

\* a key=value pair as typed; the value keeps its quotes
RawArg(key, value) == [key |-> key, value |-> value]
ArgLists ==
    { <<>>,
      <<RawArg("symbol", "AAPL")>>,
      <<RawArg("SYMBOL", "\"AAPL\""), RawArg("qty", "10")>>,
      <<RawArg("symbol", "AAPL"), RawArg("SYMBOL", "'MSFT'")>> }

TextToken == [kind |-> "text", name |-> "none", args |-> <<>>]
CommandToken(name, args) == [kind |-> "command", name |-> name, args |-> args]

\* the argument lists each name is typed with
ArgListsOf(name) ==
    IF name = "demo" THEN {a \in ArgLists : a = <<>> \/ a[1].value = "AAPL"}
    ELSE IF name = "DEMO" THEN {a \in ArgLists : a # <<>> /\ a[1].value # "AAPL"}
    ELSE {a \in ArgLists : Len(a) <= 1}
Tokens == {TextToken} \cup UNION {{CommandToken(n, a) : a \in ArgListsOf(n)} : n \in RawNames}
Transcripts == UNION {[1..n -> Tokens] : n \in 0..MaxTokens}

\* ChatCommandParser._strip_quotes on a matched value
strip_quotes(value) ==
    IF value = "\"AAPL\"" THEN "AAPL" ELSE IF value = "'MSFT'" THEN "MSFT" ELSE value

\* ChatCommandParser._parse_args: later pairs overwrite earlier ones
RECURSIVE parse_args(_)
parse_args(raw) ==
    IF raw = <<>> THEN <<>>
    ELSE LET before == parse_args(SubSeq(raw, 1, Len(raw) - 1))
             last == raw[Len(raw)]
         IN [k \in DOMAIN before \cup {Lower(last.key)} |->
                IF k = Lower(last.key) THEN strip_quotes(last.value) ELSE before[k]]

ChatCommand(name, args, source) == [name |-> name, args |-> args, source |-> source]

\* ChatCommandParser.parse: the commands of the transcript, in order
RECURSIVE parse(_)
parse(transcript) ==
    IF transcript = <<>> THEN <<>>
    ELSE LET t == Head(transcript)
         IN (IF t.kind = "command"
             THEN <<ChatCommand(Lower(t.name), parse_args(t.args), t)>>
             ELSE <<>>) \o parse(Tail(transcript))

\* ChatCommand.to_intent_payload
IntentPayload(intent, args) == [intent |-> intent, has_args |-> args # <<>>, args |-> args]
to_intent_payload(command) == IntentPayload(command.name, command.args)

FileName(ts, intent, seq) == [ts |-> ts, intent |-> intent, seq |-> seq]
WrittenFile(name, payload) == [name |-> name, payload |-> payload]
Exists(dir, name) == \E f \in dir : f.name = name

\* the bridge while it processes one transcript: the directory, the
\* filename counter, the files written and whether an error was raised
BridgeState(dir, seq, written, error) ==
    [dir |-> dir, seq |-> seq, written |-> written, error |-> error]

\* ChatIntentBridge._write_intent from the given attempt on
RECURSIVE write_intent(_, _, _, _, _)
write_intent(st, ts, intent, payload, tries) ==
    IF tries >= WRITE_ATTEMPTS THEN [st EXCEPT !.error = "RuntimeError_no_filename"]
    ELSE IF Exists(st.dir, FileName(ts, intent, st.seq))
    THEN write_intent([st EXCEPT !.seq = @ + 1], ts, intent, payload, tries + 1)
    ELSE BridgeState(st.dir \cup {WrittenFile(FileName(ts, intent, st.seq), payload)},
                     st.seq + 1,
                     Append(st.written, FileName(ts, intent, st.seq)),
                     st.error)

\* the loop of process_transcript: whether a command is written
EmitsEveryName(name, maps) == name # "list_intents"

emits(name, maps) == name # "list_intents" /\ name \in maps

RECURSIVE emit_commands(_, _, _, _)
emit_commands(commands, maps, st, ts) ==
    IF commands = <<>> \/ st.error # "none" THEN st
    ELSE emit_commands(Tail(commands), maps,
                       IF emits(Head(commands).name, maps)
                       THEN write_intent(st, ts, Head(commands).name,
                                         to_intent_payload(Head(commands)), 0)
                       ELSE st,
                       ts)

\* router.route on a transcript without commands: nothing, the catalogue
\* listing, or an intent name (routed args are not modelled: none)
Routes == {"none", "intent_list", "demo", "other"}
\* the router is asked only about a transcript without commands
RoutesFor(transcript, has_manifest) ==
    IF has_manifest /\ parse(transcript) = <<>> THEN Routes ELSE {"none"}

\* ChatIntentBridge.process_transcript
process_transcript(transcript, routed, maps, has_manifest, dir, seq, ts) ==
    LET commands == parse(transcript)
        st == BridgeState(dir, seq, <<>>, "none")
    IN IF commands = <<>>
       THEN (IF has_manifest /\ routed \notin {"none", "intent_list"} /\ routed \in maps
             THEN write_intent(st, ts, routed, IntentPayload(routed, <<>>), 0)
             ELSE st)
       ELSE emit_commands(commands, maps, st, ts)

NoBridgeCall == [op |-> "idle", transcript |-> <<>>, emitted |-> 0, written |-> <<>>,
                 error |-> "none", dir |-> {}]

\* a chat line (or any caller) hands a transcript to the bridge
ProcessTranscript(transcript, routed, ts) ==
    /\ bridgeRet = NoBridgeCall
    /\ bridgeCalls < MaxCalls
    /\ \E out \in {process_transcript(transcript, routed, bridgeMappings, manifest,
                                      bridgeDir, sequence, ts)} :
        /\ bridgeDir' = out.dir
        /\ sequence' = out.seq
        /\ bridgeRet' = [op |-> "process_transcript", transcript |-> transcript,
                         emitted |-> Len(out.written), written |-> out.written,
                         error |-> out.error, dir |-> bridgeDir]
    /\ bridgeCalls' = bridgeCalls + 1
    /\ UNCHANGED <<bridgeMappings, manifest, notBridge>>

BridgeReturn ==
    /\ bridgeRet # NoBridgeCall
    /\ bridgeRet' = NoBridgeCall
    /\ UNCHANGED <<bridgeMappings, manifest, bridgeDir, sequence, bridgeCalls, notBridge>>

\* files in the intents directory before the bridge exists
OldFiles == {WrittenFile(FileName(1, "demo", s), IntentPayload("old", <<>>)) : s \in 0..1}

BridgeIdle ==
    /\ bridgeMappings = {"demo"}
    /\ manifest = FALSE
    /\ bridgeDir = {}
    /\ sequence = 0
    /\ bridgeRet = NoBridgeCall
    /\ bridgeCalls = 0

(***************************************************************************)
(* OCR Intent Scanner (agent/vision/ocr_intents.py).  A captured text is   *)
(* the sequence of the markers #intent#[...] it shows; a marker is its     *)
(* command text (name and key=value pairs as shown) and the optional       *)
(* action id in front of the bracket.                                      *)
(***************************************************************************)
MaxHistory == 2      \* history_limit of the scanner
MaxMarkers == 2      \* markers in one captured text
MaxTicks == 3        \* polls of the scan loop

Marker(kind, name, args, action_id) ==
    [kind |-> kind, name |-> name, args |-> args, action_id |-> action_id]
\* "blank": the bracket holds only spaces; "garbled": no command name is read
Markers ==
    { Marker("command", "demo", <<>>, ""),
      Marker("command", "DEMO", <<>>, ""),
      Marker("command", "demo", <<RawArg("symbol", "AAPL")>>, ""),
      Marker("command", "demo", <<>>, "7"),
      Marker("command", "demo", <<RawArg("action_id", "7")>>, "7"),
      Marker("command", "other", <<>>, ""),
      Marker("command", "list_intents", <<>>, ""),
      Marker("blank", "none", <<>>, ""),
      Marker("garbled", "none", <<>>, "7") }
ScreenTexts == UNION {[1..n -> Markers] : n \in 0..MaxMarkers}

\* 'action_id=' in command_text.lower()
has_action_id(args) == \E i \in DOMAIN args : Lower(args[i].key) = "action_id"

\* process_text: the transcript handed to the parser and to the bridge
payload_command(marker) ==
    IF marker.action_id # "" /\ ~has_action_id(marker.args)
    THEN Append(marker.args, RawArg("action_id", marker.action_id))
    ELSE marker.args

marker_transcript(marker) ==
    IF marker.kind = "garbled" THEN <<TextToken>>
    ELSE <<CommandToken(marker.name, payload_command(marker))>>

\* (command.name, tuple(sorted(command.args.items())))
FiredKey(name, args) == [name |-> name, args |-> args]
key_of(command) == FiredKey(command.name, command.args)

Fired(hist, lookup, gone) == [history |-> hist, lookup |-> lookup, evicted |-> gone]

\* a _record_fired that drops the oldest key from the history only
RecordFiredKeepsLookup(fired, key, limit) ==
    LET full == limit # 0 /\ Len(fired.history) = limit
        hist == IF full THEN Tail(fired.history) ELSE fired.history
        gone == IF full THEN fired.evicted \cup {Head(fired.history)} ELSE fired.evicted
    IN Fired(IF limit = 0 THEN hist ELSE Append(hist, key),
             fired.lookup \cup {key},
             gone \ {key})

\* OCRIntentScanner._record_fired on deque(maxlen=limit)
record_fired(fired, key, limit) ==
    LET full == limit # 0 /\ Len(fired.history) = limit
        hist == IF full THEN Tail(fired.history) ELSE fired.history
        look == IF full THEN fired.lookup \ {Head(fired.history)} ELSE fired.lookup
        gone == IF full THEN fired.evicted \cup {Head(fired.history)} ELSE fired.evicted
    IN Fired(IF limit = 0 THEN hist ELSE Append(hist, key),
             look \cup {key},
             gone \ {key})

\* a capture failure that starts the scanner afresh
CaptureFailureForgets(fired, pc) == [fired |-> Fired(<<>>, {}, {}), pc |-> "sleep"]

\* _run, except branch: log, sleep, continue
capture_failed(fired, pc) == [fired |-> fired, pc |-> "sleep"]

NoScan == [op |-> "none", marker |-> Marker("blank", "none", <<>>, ""),
           history |-> <<>>, lookup |-> {}, evicted |-> {}, dir |-> {}, emitted |-> 0]
ScanStep(op, marker, emitted) ==
    [op |-> op, marker |-> marker, history |-> fired_history, lookup |-> fired_lookup,
     evicted |-> evicted, dir |-> bridgeDir, emitted |-> emitted]
NoFailure == [seen |-> FALSE, history |-> <<>>]

\* _run: one call of the text provider
Capture(outcome, text, ts) ==
    /\ scanPc = "capture"
    /\ ticks < MaxTicks
    /\ ticks' = ticks + 1
    /\ IF outcome = "raise"
       THEN \E out \in {capture_failed(Fired(fired_history, fired_lookup, evicted), scanPc)} :
               /\ fired_history' = out.fired.history
               /\ fired_lookup' = out.fired.lookup
               /\ evicted' = out.fired.evicted
               /\ scanPc' = out.pc
               /\ scanRet' = ScanStep("capture_failed", NoScan.marker, 0)
               /\ lastFailure' = [seen |-> TRUE, history |-> fired_history]
               /\ UNCHANGED <<scanText, scanTs>>
       ELSE /\ scanPc' = IF text = <<>> THEN "sleep" ELSE "process"
            /\ scanText' = text
            /\ scanTs' = ts
            /\ scanRet' = NoScan
            /\ UNCHANGED <<fired_history, fired_lookup, evicted, lastFailure>>
    /\ UNCHANGED <<scan_history_limit, scan_stop, bridgeVars, notOcr>>

\* process_text: one pass of the loop over the markers
ProcessMarker ==
    /\ scanPc = "process"
    /\ \E marker \in {Head(scanText)} :
       \E commands \in {IF marker.kind = "blank" THEN <<>>
                        ELSE parse(marker_transcript(marker))} :
         IF commands = <<>> \/ key_of(commands[1]) \in fired_lookup
         THEN /\ scanRet' = ScanStep("marker", marker, 0)
              /\ scanPc' = IF Tail(scanText) = <<>> THEN "sleep" ELSE "process"
              /\ UNCHANGED <<fired_history, fired_lookup, evicted, bridgeDir, sequence>>
         ELSE \E out \in {process_transcript(marker_transcript(marker), "none",
                                             bridgeMappings, manifest, bridgeDir,
                                             sequence, scanTs)} :
              \E fired \in {IF Len(out.written) > 0
                            THEN record_fired(Fired(fired_history, fired_lookup, evicted),
                                              key_of(commands[1]), scan_history_limit)
                            ELSE Fired(fired_history, fired_lookup, evicted)} :
                /\ bridgeDir' = out.dir
                /\ sequence' = out.seq
                /\ fired_history' = fired.history
                /\ fired_lookup' = fired.lookup
                /\ evicted' = fired.evicted
                /\ scanRet' = ScanStep("marker", marker, Len(out.written))
                /\ scanPc' = IF out.error # "none" THEN "dead"
                             ELSE IF Tail(scanText) = <<>> THEN "sleep" ELSE "process"
    /\ scanText' = Tail(scanText)
    /\ UNCHANGED <<scan_history_limit, scanTs, lastFailure, ticks, scan_stop,
                   bridgeMappings, manifest, bridgeRet, bridgeCalls, notOcr>>

\* _run: time.sleep(poll_interval), then the loop condition
Sleep ==
    /\ scanPc = "sleep"
    /\ scanPc' = IF scan_stop THEN "ended" ELSE "capture"
    /\ scanRet' = NoScan
    /\ UNCHANGED <<scan_history_limit, fired_history, fired_lookup, evicted, scanText,
                   scanTs, lastFailure, ticks, scan_stop, bridgeVars, notOcr>>

\* OCRIntentScanner.stop sets the stop event
ScannerStop ==
    /\ ~scan_stop
    /\ scanRet = NoScan
    /\ scan_stop' = TRUE
    /\ UNCHANGED <<scan_history_limit, fired_history, fired_lookup, evicted, scanPc,
                   scanText, scanTs, scanRet, lastFailure, ticks, bridgeVars, notOcr>>

OcrIdle ==
    /\ scan_history_limit = 0
    /\ fired_history = <<>>
    /\ fired_lookup = {}
    /\ evicted = {}
    /\ scanPc = "capture"
    /\ scanText = <<>>
    /\ scanTs = 1
    /\ scanRet = NoScan
    /\ lastFailure = NoFailure
    /\ ticks = 0
    /\ scan_stop = FALSE

(***************************************************************************)
(* The agent process (agent/cli.py): main() with its finally block, the    *)
(* panic callback trigger_shutdown, and the hotkey listener thread that    *)
(* runs it (agent/platform/windows/hotkeys.py).  The watcher's observer,   *)
(* the scan thread and the listener thread are daemon threads: they run    *)
(* while the main thread has not left main().                              *)
(***************************************************************************)
MaxPresses == 2      \* presses of the panic hotkey

\* the listener after a successful start(): _registered, the registration
\* held by the OS, _stop_event, the thread, the WM_HOTKEY messages queued
Listener(registered, os, stop_event, thread, queued) ==
    [registered |-> registered, os |-> os, stop_event |-> stop_event,
     thread |-> thread, queued |-> queued]
ListenerStarted == Listener(TRUE, TRUE, FALSE, "waiting", 0)
NoPanic == [passed |-> 0, interrupts |-> 0]

BridgeExists == enable_chat_bridge \/ enable_ocr_intents
ProcessAlive == mainPc \notin {"exited", "aborted"}

\* IntentWatcher.stop: observer.stop(), observer.join(), then the event
watcher_stop(raises) ==
    /\ observer' = IF raises THEN "stop_failed" ELSE "stopped"
    /\ watcher_stop_event' = (watcher_stop_event \/ ~raises)

\* OCRIntentScanner.stop: set the event, join(timeout=1.0)
scanner_stop(joined) ==
    scanner' = IF scanner \in {"running", "stopping"}
               THEN (IF joined THEN "ended" ELSE "stopping")
               ELSE scanner

\* the user presses the panic hotkey: the OS queues WM_HOTKEY for the thread
PressHotkey ==
    /\ ProcessAlive /\ hotkey.os /\ hotkey.thread # "exited"
    /\ presses < MaxPresses
    /\ presses' = presses + 1
    /\ hotkey' = [hotkey EXCEPT !.queued = @ + 1]
    /\ UNCHANGED <<enable_chat_bridge, enable_ocr_intents, shutdown_requested, observer,
                   watcher_stop_event, bridge_stop_event, scanner, mainPc,
                   interruptPending, cbPc, panics, notShut>>

\* _run_loop takes WM_HOTKEY and calls trigger_shutdown, which returns at
\* once when shutdown was requested before
ListenerDispatch ==
    /\ ProcessAlive /\ hotkey.thread = "waiting" /\ cbPc = "idle"
    /\ hotkey.queued > 0 /\ ~hotkey.stop_event
    /\ hotkey' = [hotkey EXCEPT !.queued = @ - 1, !.thread = "callback"]
    /\ shutdown_requested' = TRUE
    /\ cbPc' = IF shutdown_requested THEN "returned" ELSE "stop_watcher"
    /\ panics' = IF shutdown_requested THEN panics ELSE [panics EXCEPT !.passed = @ + 1]
    /\ UNCHANGED <<enable_chat_bridge, enable_ocr_intents, observer, watcher_stop_event,
                   bridge_stop_event, scanner, mainPc, interruptPending, presses, notShut>>

\* trigger_shutdown: watcher.stop() inside try/except Exception
CbStopWatcher(raises) ==
    /\ ProcessAlive /\ cbPc = "stop_watcher"
    /\ raises => observer # "stopped"
    /\ watcher_stop(raises)
    /\ cbPc' = "stop_bridge"
    /\ UNCHANGED <<enable_chat_bridge, enable_ocr_intents, shutdown_requested,
                   bridge_stop_event, scanner, hotkey, mainPc, interruptPending,
                   presses, panics, notShut>>

\* trigger_shutdown: bridge.stop() when there is a bridge
CbStopBridge ==
    /\ ProcessAlive /\ cbPc = "stop_bridge"
    /\ bridge_stop_event' = (bridge_stop_event \/ BridgeExists)
    /\ cbPc' = "stop_scanner"
    /\ UNCHANGED <<enable_chat_bridge, enable_ocr_intents, shutdown_requested, observer,
                   watcher_stop_event, scanner, hotkey, mainPc, interruptPending,
                   presses, panics, notShut>>

\* trigger_shutdown: scanner.stop() when main has created a scanner
CbStopScanner(joined) ==
    /\ ProcessAlive /\ cbPc = "stop_scanner"
    /\ joined \/ scanner \in {"running", "stopping"}
    /\ scanner_stop(joined)
    /\ cbPc' = "interrupt"
    /\ UNCHANGED <<enable_chat_bridge, enable_ocr_intents, shutdown_requested, observer,
                   watcher_stop_event, bridge_stop_event, hotkey, mainPc,
                   interruptPending, presses, panics, notShut>>

\* trigger_shutdown: threading.interrupt_main(), then return
CbInterrupt ==
    /\ ProcessAlive /\ cbPc = "interrupt"
    /\ interruptPending' = TRUE
    /\ panics' = [panics EXCEPT !.interrupts = @ + 1]
    /\ cbPc' = "returned"
    /\ UNCHANGED <<enable_chat_bridge, enable_ocr_intents, shutdown_requested, observer,
                   watcher_stop_event, bridge_stop_event, scanner, hotkey, mainPc,
                   presses, notShut>>

\* _invoke_callback has returned: back to the message loop
ListenerResume ==
    /\ ProcessAlive /\ cbPc = "returned"
    /\ cbPc' = "idle"
    /\ hotkey' = [hotkey EXCEPT !.thread = "waiting"]
    /\ UNCHANGED <<enable_chat_bridge, enable_ocr_intents, shutdown_requested, observer,
                   watcher_stop_event, bridge_stop_event, scanner, mainPc,
                   interruptPending, presses, panics, notShut>>

\* _run_loop leaves the loop on the stop event and runs its finally block
ListenerQuit ==
    /\ ProcessAlive /\ hotkey.thread = "waiting" /\ cbPc = "idle"
    /\ hotkey.stop_event
    /\ hotkey' = [hotkey EXCEPT !.thread = "exited", !.registered = FALSE,
                                !.os = IF hotkey.registered THEN FALSE ELSE @]
    /\ UNCHANGED <<enable_chat_bridge, enable_ocr_intents, shutdown_requested, observer,
                   watcher_stop_event, bridge_stop_event, scanner, mainPc,
                   interruptPending, cbPc, presses, panics, notShut>>

\* the scan thread sees the stop event after its sleep
ScannerThreadEnds ==
    /\ ProcessAlive /\ scanner = "stopping"
    /\ scanner' = "ended"
    /\ UNCHANGED <<enable_chat_bridge, enable_ocr_intents, shutdown_requested, observer,
                   watcher_stop_event, bridge_stop_event, hotkey, mainPc,
                   interruptPending, cbPc, presses, panics, notShut>>

\* main, try block: create and start the scanner (RuntimeError is logged)
MainSetup(started) ==
    /\ mainPc = "setup"
    /\ started \/ enable_ocr_intents
    /\ scanner' = IF enable_ocr_intents /\ started THEN "running" ELSE "none"
    /\ mainPc' = "serving"
    /\ UNCHANGED <<enable_chat_bridge, enable_ocr_intents, shutdown_requested, observer,
                   watcher_stop_event, bridge_stop_event, hotkey, interruptPending,
                   cbPc, presses, panics, notShut>>

\* KeyboardInterrupt reaches the main thread: inside the try block it is
\* caught (bridge.run stops the bridge on its way out); inside the finally
\* block it leaves main() ("aborted") with the rest of the block not run
MainInterrupted ==
    /\ ProcessAlive /\ interruptPending
    /\ interruptPending' = FALSE
    /\ mainPc' = IF mainPc \in {"setup", "serving"} THEN "finally_scanner" ELSE "aborted"
    /\ bridge_stop_event' = (bridge_stop_event \/ (mainPc = "serving" /\ enable_chat_bridge))
    /\ UNCHANGED <<enable_chat_bridge, enable_ocr_intents, shutdown_requested, observer,
                   watcher_stop_event, scanner, hotkey, cbPc, presses, panics, notShut>>

\* the foreground task returns: bridge.run() on quit, exit or end of input,
\* or watcher._stop_event.wait() once the event is set
MainLeaves ==
    /\ mainPc = "serving"
    /\ enable_chat_bridge \/ watcher_stop_event
    /\ bridge_stop_event' = (bridge_stop_event \/ enable_chat_bridge)
    /\ mainPc' = "finally_scanner"
    /\ UNCHANGED <<enable_chat_bridge, enable_ocr_intents, shutdown_requested, observer,
                   watcher_stop_event, scanner, hotkey, interruptPending, cbPc,
                   presses, panics, notShut>>

\* main, finally: scanner.stop()
MainFinallyScanner(joined) ==
    /\ mainPc = "finally_scanner"
    /\ joined \/ scanner \in {"running", "stopping"}
    /\ scanner_stop(joined)
    /\ mainPc' = "finally_bridge"
    /\ UNCHANGED <<enable_chat_bridge, enable_ocr_intents, shutdown_requested, observer,
                   watcher_stop_event, bridge_stop_event, hotkey, interruptPending,
                   cbPc, presses, panics, notShut>>

\* main, finally: bridge.stop()
MainFinallyBridge ==
    /\ mainPc = "finally_bridge"
    /\ bridge_stop_event' = (bridge_stop_event \/ BridgeExists)
    /\ mainPc' = "finally_listener"
    /\ UNCHANGED <<enable_chat_bridge, enable_ocr_intents, shutdown_requested, observer,
                   watcher_stop_event, scanner, hotkey, interruptPending, cbPc,
                   presses, panics, notShut>>

\* main, finally: hotkey_listener.stop() sets the event and posts WM_QUIT
MainFinallyListener ==
    /\ mainPc = "finally_listener"
    /\ hotkey' = [hotkey EXCEPT !.stop_event = TRUE]
    /\ mainPc' = "finally_join"
    /\ UNCHANGED <<enable_chat_bridge, enable_ocr_intents, shutdown_requested, observer,
                   watcher_stop_event, bridge_stop_event, scanner, interruptPending,
                   cbPc, presses, panics, notShut>>

\* hotkey_listener.stop(): join(timeout=1) returns when the thread has
\* exited, or after the timeout while the thread is busy in the callback;
\* then _registered is cleared
MainFinallyJoin ==
    /\ mainPc = "finally_join"
    /\ hotkey.thread \in {"exited", "callback"}
    /\ hotkey' = [hotkey EXCEPT !.registered = FALSE]
    /\ mainPc' = "finally_watcher"
    /\ UNCHANGED <<enable_chat_bridge, enable_ocr_intents, shutdown_requested, observer,
                   watcher_stop_event, bridge_stop_event, scanner, interruptPending,
                   cbPc, presses, panics, notShut>>

\* main, finally: watcher.stop(); main() returns or the exception leaves it
MainFinallyWatcher(raises) ==
    /\ mainPc = "finally_watcher"
    /\ raises => observer # "stopped"
    /\ watcher_stop(raises)
    /\ mainPc' = "exited"
    /\ UNCHANGED <<enable_chat_bridge, enable_ocr_intents, shutdown_requested,
                   bridge_stop_event, scanner, hotkey, interruptPending, cbPc,
                   presses, panics, notShut>>

ShutIdle ==
    /\ enable_chat_bridge = FALSE
    /\ enable_ocr_intents = FALSE
    /\ shutdown_requested = FALSE
    /\ observer = "running"
    /\ watcher_stop_event = FALSE
    /\ bridge_stop_event = FALSE
    /\ scanner = "none"
    /\ hotkey = ListenerStarted
    /\ mainPc = "setup"
    /\ interruptPending = FALSE
    /\ cbPc = "idle"
    /\ presses = 0
    /\ panics = NoPanic

(***************************************************************************)
(* The registry called from several threads.  ApplicationRegistry holds no *)
(* lock: a call runs in steps (the table reads and writes before a         *)
(* blocking OS call, the OS call, the table writes after it), and another  *)
(* thread's step can come between two of them.  Each step is taken as one  *)
(* atomic action; the applications here have no windows.                   *)
(***************************************************************************)
Threads == {1, 2}

\* pc: "idle", "launch", "append" (start), "stop", "purge" (close, kill);
\* sel: the records selected; proc: the process spawned
ThreadCall(pc, op, name, sel, proc) ==
    [pc |-> pc, op |-> op, name |-> name, sel |-> sel, proc |-> proc]
NoThreadCall == ThreadCall("idle", "none", "none", <<>>, 0)

SetRegistry(reg) ==
    /\ running' = Stored(reg.running)
    /\ instances' = reg.instances

\* start: get, require_enabled, the two purges and the single-instance
\* policy, up to the Popen call
StartBegin(t, name) ==
    /\ threads[t].pc = "idle"
    /\ nextPid + Cardinality({u \in Threads : threads[u].pc = "launch"}) <= MaxProc
    /\ \E r1 \in {remove_inactive_records(purge_stopped(Reg, Os, name), Os, name)} :
       \E run \in {r1.running[name]} :
         IF DetectBlocks(policy, name, run)
         THEN /\ SetRegistry(r1)
              /\ threads' = [threads EXCEPT ![t] =
                    NoThreadCall]
              /\ UNCHANGED alive
         ELSE IF ForceRestarts(policy, name, run)
         THEN \E k \in SUBSET (Procs(run) \cap alive) :
              \E o2 \in {force_kill_all(Os, run, Oracle({}, k, {}, TRUE, {}))} :
                 /\ SetRegistry(purge_stopped(r1, o2, name))
                 /\ alive' = o2.alive
                 /\ threads' = [threads EXCEPT ![t] =
                       ThreadCall("launch", "start", name, <<>>, 0)]
         ELSE /\ SetRegistry(r1)
              /\ threads' = [threads EXCEPT ![t] =
                    ThreadCall("launch", "start", name, <<>>, 0)]
              /\ UNCHANGED alive
    /\ UNCHANGED <<policy, win, nextPid, ret, notConc>>

\* start: subprocess.Popen
StartLaunch(t) ==
    /\ threads[t].pc = "launch"
    /\ alive' = alive \cup {nextPid}
    /\ nextPid' = nextPid + 1
    /\ threads' = [threads EXCEPT ![t].pc = "append", ![t].proc = nextPid]
    /\ UNCHANGED <<policy, win, running, instances, ret, notConc>>

\* start: the record is appended to _running[name] and entered in _instances
StartAppend(t) ==
    /\ threads[t].pc = "append"
    /\ \E rec \in {NewRecord(threads[t].name, threads[t].proc)} :
         SetRegistry([running |-> [running EXCEPT ![rec.app] = Append(@, rec)],
                      instances |-> instances \cup {rec.id}])
    /\ threads' = [threads EXCEPT ![t] = NoThreadCall]
    /\ UNCHANGED <<policy, alive, win, nextPid, ret, notConc>>

\* close, kill: _select_records
StopSelect(t, op, name, all) ==
    /\ threads[t].pc = "idle"
    /\ \E s \in {select_records(Reg, Os, name, all)} :
         /\ SetRegistry(s.reg)
         /\ threads' = [threads EXCEPT ![t] =
               IF s.sel = <<>>
               THEN NoThreadCall
               ELSE ThreadCall("stop", op, name, s.sel, 0)]
    /\ UNCHANGED <<policy, alive, win, nextPid, ret, notConc>>

\* close (force unset): terminate and wait; kill: _force_kill
StopRecords(t) ==
    /\ threads[t].pc = "stop"
    /\ \E k \in SUBSET (Procs(threads[t].sel) \cap alive) :
       \E o2 \in {IF threads[t].op = "close"
                  THEN close_all(Os, threads[t].sel, FALSE, Oracle(k, {}, {}, TRUE, {}))
                  ELSE force_kill_all(Os, threads[t].sel, Oracle({}, k, {}, TRUE, {}))} :
         alive' = o2.alive
    /\ threads' = [threads EXCEPT ![t].pc = "purge"]
    /\ UNCHANGED <<policy, win, nextPid, running, instances, ret, notConc>>

\* close, kill: the final _purge_stopped
StopPurge(t) ==
    /\ threads[t].pc = "purge"
    /\ SetRegistry(purge_stopped(Reg, Os, threads[t].name))
    /\ threads' = [threads EXCEPT ![t] = NoThreadCall]
    /\ UNCHANGED <<policy, alive, win, nextPid, ret, notConc>>

ConcIdle == threads = [t \in Threads |-> NoThreadCall]

(***************************************************************************)
(* Instance identifiers (agent/apps/registry.py : _make_instance_id).      *)
(* os.urandom(8).hex() is sixteen characters out of 0-9a-f.  A string with *)
(* a letter in it reaches self._instances.get in _select_record; a string  *)
(* of digits only passes target.isdigit() and is compared, as an integer,  *)
(* with the pids of the records.                                           *)
(***************************************************************************)
HasLetter == 0
NoPid == ExtPid + 1        \* an integer that is the pid of no process
HexOutcomes == {HasLetter} \cup (1..NoPid)

\* the target a caller passes when it passes the instance_id of record id
InstanceTarget(id) ==
    IF instance_hex[id] = HasLetter THEN Target("id", id)
    ELSE Target("digits", instance_hex[id])

\* focus(name, target=record.instance_id) for a record a start has returned
FocusInstance(name, id) ==
    /\ id < nextPid
    /\ Show("focus", name, InstanceTarget(id))

IdIdle == instance_hex = [id \in ProcIds |-> HasLetter]

(***************************************************************************)
(* Recipe Runner: RecipeRunner._resolve_target (agent/runner/steps.py).    *)
(* A mapping gives for each of the keys instance_id, instance, pid and     *)
(* target its value, or Absent when the key is not in the mapping.         *)
(***************************************************************************)
Absent == "absent"

Mapping(i, n, p, t) == [instance_id |-> i, instance |-> n, pid |-> p, target |-> t]

StepPayloads ==
    {Mapping(i, n, p, t) : i \in {Absent, "p_id"}, n \in {Absent, "p_inst"},
                           p \in {Absent, "12", "p_x"}, t \in {Absent, "", "first"}}
StepContexts ==
    {Mapping(i, n, p, t) : i \in {Absent, "c_id"}, n \in {Absent, "c_inst"},
                           p \in {Absent, "34", "c_x"}, t \in {Absent, "", "c_target"}}

ResolvedStr(v) == [status |-> "returned", kind |-> "str", str |-> v, int |-> 0]
ResolvedInt(n) == [status |-> "returned", kind |-> "int", str |-> "", int |-> n]
ResolveRaised == [status |-> "raised", kind |-> "ValueError", str |-> "", int |-> 0]
NotResolved == [status |-> "idle", kind |-> "none", str |-> "", int |-> 0]

\* int(value): the decimal strings of the inputs, ValueError for the others
Decimal == [s \in {"12", "34"} |-> IF s = "12" THEN 12 ELSE 34]
to_int(s) == IF s \in DOMAIN Decimal THEN ResolvedInt(Decimal[s]) ELSE ResolveRaised

\* bool(value) of a value read with .get(): None and "" are false
Truthy(v) == v \notin {Absent, ""}

resolve_target(p, c, latest) ==
    IF p.instance_id # Absent THEN ResolvedStr(p.instance_id)
    ELSE IF p.instance # Absent THEN ResolvedStr(p.instance)
    ELSE IF p.pid # Absent THEN to_int(p.pid)
    ELSE IF c.instance_id # Absent THEN ResolvedStr(c.instance_id)
    ELSE IF c.instance # Absent THEN ResolvedStr(c.instance)
    ELSE IF c.pid # Absent THEN to_int(c.pid)
    ELSE LET target == IF p.target # Absent THEN p.target ELSE c.target
         IN IF Truthy(target) THEN ResolvedStr(target)
            ELSE IF Truthy(latest) THEN ResolvedStr(latest)
            ELSE ResolvedStr("latest")

ResolveTarget ==
    /\ resolved = NotResolved
    /\ resolved' = resolve_target(stepPayload, stepContext, latest_instance)
    /\ UNCHANGED <<stepPayload, stepContext, latest_instance, notRes>>

ResolveDone ==
    /\ resolved # NotResolved
    /\ resolved' = NotResolved
    /\ UNCHANGED <<stepPayload, stepContext, latest_instance, notRes>>

ResIdle ==
    /\ stepPayload = Mapping(Absent, Absent, Absent, Absent)
    /\ stepContext = Mapping(Absent, Absent, Absent, Absent)
    /\ latest_instance = Absent
    /\ resolved = NotResolved

(***************************************************************************)
(* Recipe Runner: the app lifecycle steps (agent/runner/steps.py) over the *)
(* Application Registry and the State Store's process registry             *)
(* (agent/state/store.py).  A step is called here with no target in its    *)
(* payload and none in the context.  process_registry lists the entries,   *)
(* the one with the oldest _updated_dt first.                              *)
(***************************************************************************)
Entry(id, app, status) == [instance_id |-> id, app |-> app, status |-> status]

EntryOf(store, id) ==
    IF \E i \in 1..Len(store) : store[i].instance_id = id
    THEN store[CHOOSE i \in 1..Len(store) : store[i].instance_id = id]
    ELSE Entry(id, "none", "unknown")

Others(store, id) == SelectSeq(store, LAMBDA e : e.instance_id # id)

register_process(store, id, app, status) == Append(Others(store, id), Entry(id, app, status))

\* update_process(instance_id, timestamp=now) and, with a status, status=...
update_process(store, id, status) ==
    Append(Others(store, id),
           IF status = "keep" THEN EntryOf(store, id)
           ELSE [EntryOf(store, id) EXCEPT !.status = status])

RECURSIVE update_processes(_, _, _)
update_processes(store, ids, status) ==
    IF ids = <<>> THEN store
    ELSE update_processes(update_process(store, Head(ids), status), Tail(ids), status)

\* the instance id of the entry of the app updated last, 0 for None
latest_instance_for(store, app) ==
    LET open == SelectSeq(store, LAMBDA e : e.app = app /\ e.status \notin {"closed", "killed"})
    IN IF open = <<>> THEN 0 ELSE open[Len(open)].instance_id

\* _resolve_target with nothing in the payload and the context
resolve_default_target(store, app) ==
    IF latest_instance_for(store, app) # 0
    THEN InstanceTarget(latest_instance_for(store, app))
    ELSE Latest

StepCommit(op, name, args, orc, out, store) ==
    /\ running' = Stored(out.reg.running)
    /\ instances' = out.reg.instances
    /\ alive' = out.os.alive
    /\ win' = out.os.win
    /\ nextPid' = IF out.spawned THEN nextPid + 1 ELSE nextPid
    /\ ret' = Returned(op, name, args, orc, out)
    /\ process_registry' = store
    /\ UNCHANGED <<policy, notStep>>

\* step_app_start
StepAppStart(name) ==
    /\ ret.op = "idle"
    /\ \E k \in (IF policy[name] = "force" THEN SUBSET (Procs(Seen(name)) \cap alive) ELSE {{}}),
          s \in BOOLEAN :
       \E out \in {StartOutcome(Reg, Os, policy, name, Oracle({}, k, {}, s, {}), nextPid)} :
          /\ out.spawned => nextPid <= MaxProc
          /\ StepCommit("start", name, NoArgs, Oracle({}, k, {}, s, {}), out,
                        IF out.err = "none"
                        THEN register_process(process_registry, out.rec.id, name, "running")
                        ELSE process_registry)

\* step_app_focus, step_app_minimize, step_app_maximize, step_app_restore
StepAppShow(op, name) ==
    /\ ret.op = "idle"
    /\ \E target \in {resolve_default_target(process_registry, name)} :
       \E out \in {ShowOutcome(Reg, Os, op, name, target, NoOracle)} :
          StepCommit(op, name, [NoArgs EXCEPT !.target = target], NoOracle, out,
                     IF out.err = "none"
                     THEN update_process(process_registry, out.rec.id, "keep")
                     ELSE process_registry)

\* step_app_close
StepAppClose(name, force, all) ==
    /\ ret.op = "idle"
    /\ \E records \in {running_processes(Reg, Os, name)} :
       \E t \in SUBSET (Procs(Chosen(name, all)) \cap alive) :
       \E k \in (IF force THEN SUBSET ((Procs(Chosen(name, all)) \cap alive) \ t) ELSE {{}}) :
       \E out \in {CloseOutcome(records.reg, Os, name, force, all, Oracle(t, k, {}, TRUE, {}))} :
          StepCommit("close", name, [NoArgs EXCEPT !.force = force, !.all = all],
                     Oracle(t, k, {}, TRUE, {}), out,
                     IF out.err = "none"
                     THEN update_processes(process_registry, records.val, "closed")
                     ELSE process_registry)

\* step_app_kill
StepAppKill(name, all) ==
    /\ ret.op = "idle"
    /\ \E records \in {running_processes(Reg, Os, name)} :
       \E k \in SUBSET (Procs(Chosen(name, all)) \cap alive) :
       \E out \in {KillOutcome(records.reg, Os, name, all, Oracle({}, k, {}, TRUE, {}))} :
          StepCommit("kill", name, [NoArgs EXCEPT !.all = all],
                     Oracle({}, k, {}, TRUE, {}), out,
                     IF out.err = "none"
                     THEN update_processes(process_registry, records.val, "killed")
                     ELSE process_registry)

StepIdle == process_registry = <<>>

(***************************************************************************)
(* One ChatIntentBridge used by two threads (agent/cli.py): the chat loop  *)
(* of bridge.run() on the main thread and the scan thread of the           *)
(* OCRIntentScanner, both through process_transcript -> _write_intent.     *)
(* next(self._sequence) is one call on itertools.count, which the          *)
(* interpreter lock makes indivisible; between destination.exists() and    *)
(* destination.open("w") the other thread may run.                         *)
(***************************************************************************)
MaxEmits == 1        \* _write_intent calls of each thread
Emitters == {"chat", "ocr"}
NoPath == FileName(0, "none", 0)
Emitter(pc, tries, path, written, clobbered, calls) ==
    [pc |-> pc, tries |-> tries, path |-> path, written |-> written,
     clobbered |-> clobbered, calls |-> calls]
EmitterIdle == Emitter("idle", 0, NoPath, <<>>, {}, 0)

\* what each thread writes: the two payloads differ, the intent name is one
EmitterPayload(t) ==
    IF t = "chat" THEN IntentPayload("demo", [symbol |-> "AAPL"])
    ELSE IntentPayload("demo", <<>>)

\* a counter that hands out the same value again
NextSequenceStuck(seq) == seq

\* next(self._sequence): the value handed out is seq, the counter moves on
next_sequence(seq) == seq + 1

\* a directory where every name the two threads can form is taken
MaxSuffix == Cardinality(Emitters) * MaxEmits * WRITE_ATTEMPTS
FullDir ==
    {WrittenFile(FileName(ts, "demo", s), IntentPayload("old", <<>>)) :
        ts \in Timestamps, s \in 0..MaxSuffix}

\* _write_intent is entered: mkdir(exist_ok=True), the loop begins
WriteIntentBegin(t) ==
    /\ emitters[t].pc = "idle"
    /\ emitters[t].calls < MaxEmits
    /\ emitters' = [emitters EXCEPT ![t].pc = "loop", ![t].tries = 0, ![t].path = NoPath]
    /\ UNCHANGED <<bridgeVars, notEmit>>

\* one round of the loop up to `continue`: clock, next(), f-string,
\* destination.exists().  The value taken from the counter is the thread's
\* own; what other threads do shows in the directory, which is read here
\* and written in the open() step
WriteIntentAttempt(t, ts) ==
    /\ emitters[t].pc = "loop"
    /\ emitters[t].tries < WRITE_ATTEMPTS
    /\ sequence' = next_sequence(sequence)
    /\ emitters' = [emitters EXCEPT
                       ![t].tries = @ + 1,
                       ![t].pc = IF Exists(bridgeDir, FileName(ts, "demo", sequence))
                                 THEN "loop" ELSE "open",
                       ![t].path = IF Exists(bridgeDir, FileName(ts, "demo", sequence))
                                   THEN NoPath ELSE FileName(ts, "demo", sequence)]
    /\ UNCHANGED <<bridgeMappings, manifest, bridgeDir, bridgeRet, bridgeCalls, notEmit>>

\* destination.open("w") truncates what is there; safe_dump; return
WriteIntentOpen(t) ==
    /\ emitters[t].pc = "open"
    /\ bridgeDir' = {f \in bridgeDir : f.name # emitters[t].path}
                        \cup {WrittenFile(emitters[t].path, EmitterPayload(t))}
    /\ emitters' = [emitters EXCEPT
                       ![t].pc = "idle",
                       ![t].written = Append(@, emitters[t].path),
                       ![t].clobbered = IF Exists(bridgeDir, emitters[t].path)
                                        THEN @ \cup {emitters[t].path} ELSE @,
                       ![t].calls = @ + 1]
    /\ UNCHANGED <<bridgeMappings, manifest, sequence, bridgeRet, bridgeCalls, notEmit>>

\* the loop ran out: RuntimeError
WriteIntentRaise(t) ==
    /\ emitters[t].pc = "loop"
    /\ emitters[t].tries >= WRITE_ATTEMPTS
    /\ emitters' = [emitters EXCEPT ![t].pc = "raised", ![t].calls = @ + 1]
    /\ UNCHANGED <<bridgeVars, notEmit>>

EmitIdle == emitters = [t \in Emitters |-> EmitterIdle]
(***************************************************************************)
(* Chat Command Watcher (agent/runner/chat_commands.py): poll() parses the *)
(* transcript its provider returns and gives back the commands whose token *)
(* it has not seen; reset() forgets the tokens.                            *)
(***************************************************************************)
MaxPolls == 3        \* poll() and reset() calls on one watcher

\* the pieces the provider's transcripts are made of: "demo" and "DEMO"
\* with the same pair parse to one name and one args under two source texts
PollTokens ==
    {TextToken,
     CommandToken("demo", <<>>),
     CommandToken("demo", <<RawArg("symbol", "AAPL")>>),
     CommandToken("DEMO", <<RawArg("symbol", "AAPL")>>),
     CommandToken("demo", <<RawArg("symbol", "AAPL"), RawArg("SYMBOL", "'MSFT'")>>)}
PollTranscripts == UNION {[1..n -> PollTokens] : n \in 0..MaxTokens}

\* a token made of the name alone
CommandTokenNameOnly(command) == <<command.name, {}, command.name>>

\* ChatCommandWatcher._command_token: tuple(sorted(args.items())) is fixed
\* by the set of the items
command_token(command) ==
    <<command.name, {<<k, command.args[k]>> : k \in DOMAIN command.args}, command.source>>

\* the loop of poll() over the parsed commands
RECURSIVE poll_loop(_, _, _)
poll_loop(commands, seen, fresh) ==
    IF commands = <<>> THEN [seen |-> seen, fresh |-> fresh]
    ELSE IF command_token(Head(commands)) \in seen
    THEN poll_loop(Tail(commands), seen, fresh)
    ELSE poll_loop(Tail(commands), seen \cup {command_token(Head(commands))},
                   Append(fresh, Head(commands)))

\* the last call: before is what was returned since the last reset when
\* the call began; forgotten is what the reset just before a poll cleared
PollCall(op, transcript, before, forgotten, fresh) ==
    [op |-> op, transcript |-> transcript, before |-> before, forgotten |-> forgotten,
     fresh |-> fresh]
NoPoll == PollCall("none", <<>>, <<>>, <<>>, <<>>)

\* ChatCommandWatcher.poll on the transcript the provider returns
Poll(transcript) ==
    /\ pollCalls < MaxPolls
    /\ \E out \in {poll_loop(parse(transcript), seen_tokens, <<>>)} :
        /\ seen_tokens' = out.seen
        /\ polled' = polled \o out.fresh
        /\ pollRet' = PollCall("poll", transcript, polled,
                               IF pollRet.op = "reset" THEN pollRet.before ELSE <<>>,
                               out.fresh)
    /\ pollCalls' = pollCalls + 1
    /\ UNCHANGED notPoll

\* ChatCommandWatcher.reset
Reset ==
    /\ pollCalls < MaxPolls
    /\ seen_tokens' = {}
    /\ polled' = <<>>
    /\ pollRet' = PollCall("reset", <<>>, polled, <<>>, <<>>)
    /\ pollCalls' = pollCalls + 1
    /\ UNCHANGED notPoll

PollIdle == seen_tokens = {} /\ polled = <<>> /\ pollRet = NoPoll /\ pollCalls = 0
(***************************************************************************)
(* Specifications                                                          *)
(***************************************************************************)
InitReg ==
    /\ policy \in {[a |-> p, b |-> "allow"] : p \in Policies}
    /\ RegIdle
    /\ UiIdle
    /\ RcpIdle
    /\ WatchIdle
    /\ BridgeIdle
    /\ OcrIdle
    /\ ShutIdle
    /\ ConcIdle
    /\ IdIdle
    /\ ResIdle
    /\ StepIdle
    /\ EmitIdle
    /\ PollIdle


NextReg ==
    \/ \E name \in Names : Start(name)
    \/ \E op \in ShowOps, name \in Names : \E target \in TargetsFor(name) : Show(op, name, target)
    \/ \E name \in Names : \E force \in FlagsFor(name), all \in FlagsFor(name) : Close(name, force, all)
    \/ \E name \in Names : \E all \in FlagsFor(name) : Kill(name, all)
    \/ \E name \in Names : IsRunning(name)
    \/ \E name \in Names : RunningProcesses(name)
    \/ Return
    \/ EnvProcExit
    \/ EnvWindowOpen
    \/ EnvWindowClose

SpecReg == InitReg /\ [][NextReg]_vars

InitClick ==
    /\ policy = [a |-> "allow", b |-> "allow"]
    /\ RegIdle
    /\ RcpIdle
    /\ WatchIdle
    /\ BridgeIdle
    /\ OcrIdle
    /\ ShutIdle
    /\ ConcIdle
    /\ IdIdle
    /\ ResIdle
    /\ StepIdle
    /\ EmitIdle
    /\ PollIdle
    /\ element \in UIElementHandle
    /\ allow_focus_tap \in BOOLEAN
    /\ clickRet = NoClick

NextClick ==
    \/ Click
    \/ ClickDone

SpecClick == InitClick /\ [][NextClick]_vars

InitRecipe ==
    /\ policy = [a |-> "allow", b |-> "allow"]
    /\ RegIdle
    /\ UiIdle
    /\ WatchIdle
    /\ BridgeIdle
    /\ OcrIdle
    /\ ShutIdle
    /\ ConcIdle
    /\ IdIdle
    /\ ResIdle
    /\ StepIdle
    /\ EmitIdle
    /\ PollIdle
    /\ recipe \in Recipes
    /\ history_limit \in 0..MaxLimit
    /\ runs = 0
    /\ runState = "idle"
    /\ runErr = NoError
    /\ stepIdx = 0
    /\ current = NoActivity
    /\ history = <<>>
    /\ handlerLog = <<>>
    /\ completed = <<>>

NextRecipe ==
    \/ RunRecipe
    \/ StepBegin
    \/ StepEnd
    \/ RunReturn

SpecRecipe == InitRecipe /\ [][NextRecipe]_vars

InitWatch ==
    /\ policy = [a |-> "allow", b |-> "allow"]
    /\ RegIdle
    /\ UiIdle
    /\ RcpIdle
    /\ BridgeIdle
    /\ OcrIdle
    /\ ShutIdle
    /\ ConcIdle
    /\ IdIdle
    /\ ResIdle
    /\ StepIdle
    /\ EmitIdle
    /\ PollIdle
    /\ intentsDir = [n \in FileNames |-> NoFile]
    /\ archiveDir = [n \in FileNames |-> NoFile]
    /\ events = {}
    /\ handling = NotHandling
    /\ handled = NoneHandled
    /\ renameReplaces \in BOOLEAN
    /\ envOps = 0
    /\ watching = TRUE

NextWatch ==
    \/ \E p \in FileNames \cup {DirName} : OnCreated(p)
    \/ LoadAttempt
    \/ ProcessIntent
    \/ WatcherReturn
    \/ \E name \in FileNames : \E content \in Contents : ProducerCreate(name, content)
    \/ \E name \in FileNames : \E content \in Contents : ProducerWrite(name, content)
    \/ \E name \in FileNames \cup {DirName} : DuplicateEvent(name)

SpecWatch == InitWatch /\ [][NextWatch]_vars

InitBridge ==
    /\ policy = [a |-> "allow", b |-> "allow"]
    /\ RegIdle
    /\ UiIdle
    /\ RcpIdle
    /\ WatchIdle
    /\ OcrIdle
    /\ ShutIdle
    /\ ConcIdle
    /\ IdIdle
    /\ ResIdle
    /\ StepIdle
    /\ EmitIdle
    /\ PollIdle
    /\ bridgeMappings \in {{"demo"}, {"demo", "list_intents"}}
    /\ manifest \in BOOLEAN
    /\ bridgeDir \in {{}, OldFiles}
    /\ sequence = 0
    /\ bridgeRet = NoBridgeCall
    /\ bridgeCalls = 0

NextBridge ==
    \/ \E transcript \in Transcripts, ts \in Timestamps :
          \E routed \in RoutesFor(transcript, manifest) :
              ProcessTranscript(transcript, routed, ts)
    \/ BridgeReturn

SpecBridge == InitBridge /\ [][NextBridge]_vars

InitOcr ==
    /\ policy = [a |-> "allow", b |-> "allow"]
    /\ RegIdle
    /\ UiIdle
    /\ RcpIdle
    /\ WatchIdle
    /\ BridgeIdle
    /\ ShutIdle
    /\ ConcIdle
    /\ IdIdle
    /\ ResIdle
    /\ StepIdle
    /\ EmitIdle
    /\ PollIdle
    /\ scan_history_limit \in 0..MaxHistory
    /\ fired_history = <<>>
    /\ fired_lookup = {}
    /\ evicted = {}
    /\ scanPc = "capture"
    /\ scanText = <<>>
    /\ scanTs = 1
    /\ scanRet = NoScan
    /\ lastFailure = NoFailure
    /\ ticks = 0
    /\ scan_stop = FALSE

NextOcr ==
    \/ \E text \in ScreenTexts, ts \in Timestamps : Capture("text", text, ts)
    \/ Capture("raise", <<>>, 1)
    \/ ProcessMarker
    \/ Sleep
    \/ ScannerStop

SpecOcr == InitOcr /\ [][NextOcr]_vars

InitShutdown ==
    /\ policy = [a |-> "allow", b |-> "allow"]
    /\ RegIdle
    /\ UiIdle
    /\ RcpIdle
    /\ WatchIdle
    /\ BridgeIdle
    /\ OcrIdle
    /\ ConcIdle
    /\ IdIdle
    /\ ResIdle
    /\ StepIdle
    /\ EmitIdle
    /\ PollIdle
    /\ enable_chat_bridge \in BOOLEAN
    /\ enable_ocr_intents \in BOOLEAN
    /\ shutdown_requested = FALSE
    /\ observer = "running"
    /\ watcher_stop_event = FALSE
    /\ bridge_stop_event = FALSE
    /\ scanner = "none"
    /\ hotkey = ListenerStarted
    /\ mainPc = "setup"
    /\ interruptPending = FALSE
    /\ cbPc = "idle"
    /\ presses = 0
    /\ panics = NoPanic

NextShutdown ==
    \/ PressHotkey
    \/ ListenerDispatch
    \/ \E raises \in BOOLEAN : CbStopWatcher(raises)
    \/ CbStopBridge
    \/ \E joined \in BOOLEAN : CbStopScanner(joined)
    \/ CbInterrupt
    \/ ListenerResume
    \/ ListenerQuit
    \/ ScannerThreadEnds
    \/ \E started \in BOOLEAN : MainSetup(started)
    \/ MainInterrupted
    \/ MainLeaves
    \/ \E joined \in BOOLEAN : MainFinallyScanner(joined)
    \/ MainFinallyBridge
    \/ MainFinallyListener
    \/ MainFinallyJoin
    \/ \E raises \in BOOLEAN : MainFinallyWatcher(raises)

SpecShutdown == InitShutdown /\ [][NextShutdown]_vars

InitRegConc ==
    /\ policy \in {[a |-> p, b |-> "allow"] : p \in {"detect", "force"}}
    /\ RegIdle
    /\ UiIdle
    /\ RcpIdle
    /\ WatchIdle
    /\ BridgeIdle
    /\ OcrIdle
    /\ ShutIdle
    /\ IdIdle
    /\ ResIdle
    /\ StepIdle
    /\ EmitIdle
    /\ PollIdle
    /\ threads = [t \in Threads |-> NoThreadCall]

NextRegConc ==
    \/ \E t \in Threads, name \in Apps : StartBegin(t, name)
    \/ \E t \in Threads : StartLaunch(t)
    \/ \E t \in Threads : StartAppend(t)
    \/ \E t \in Threads, op \in {"close", "kill"}, name \in Apps, all \in BOOLEAN :
          StopSelect(t, op, name, all)
    \/ \E t \in Threads : StopRecords(t)
    \/ \E t \in Threads : StopPurge(t)
    \/ EnvProcExit

SpecRegConc == InitRegConc /\ [][NextRegConc]_vars


InitFocus ==
    /\ policy = [a |-> "detect", b |-> "allow"]
    /\ instance_hex \in [ProcIds -> HexOutcomes]
    /\ RegIdle
    /\ UiIdle
    /\ RcpIdle
    /\ WatchIdle
    /\ BridgeIdle
    /\ OcrIdle
    /\ ShutIdle
    /\ ConcIdle
    /\ ResIdle
    /\ StepIdle
    /\ EmitIdle
    /\ PollIdle

NextFocus ==
    \/ \E name \in Apps : Start(name)
    \/ \E name \in Apps, id \in ProcIds : FocusInstance(name, id)
    \/ Return
    \/ EnvProcExit
    \/ EnvWindowOpen
    \/ EnvWindowClose

SpecFocus == InitFocus /\ [][NextFocus]_vars

InitResolve ==
    /\ policy = [a |-> "allow", b |-> "allow"]
    /\ RegIdle
    /\ UiIdle
    /\ RcpIdle
    /\ WatchIdle
    /\ BridgeIdle
    /\ OcrIdle
    /\ ShutIdle
    /\ ConcIdle
    /\ IdIdle
    /\ StepIdle
    /\ EmitIdle
    /\ PollIdle
    /\ stepPayload \in StepPayloads
    /\ stepContext \in StepContexts
    /\ latest_instance \in {Absent, "stored"}
    /\ resolved = NotResolved

NextResolve ==
    \/ ResolveTarget
    \/ ResolveDone

SpecResolve == InitResolve /\ [][NextResolve]_vars

InitStep ==
    /\ policy \in {[a |-> p, b |-> "allow"] : p \in Policies}
    /\ RegIdle
    /\ UiIdle
    /\ RcpIdle
    /\ WatchIdle
    /\ BridgeIdle
    /\ OcrIdle
    /\ ShutIdle
    /\ ConcIdle
    /\ IdIdle
    /\ ResIdle
    /\ EmitIdle
    /\ PollIdle
    /\ process_registry = <<>>

NextStep ==
    \/ \E name \in Apps : StepAppStart(name)
    \/ \E op \in ShowOps, name \in Apps : StepAppShow(op, name)
    \/ \E name \in Apps, force \in BOOLEAN, all \in BOOLEAN : StepAppClose(name, force, all)
    \/ \E name \in Apps, all \in BOOLEAN : StepAppKill(name, all)
    \/ Return
    \/ EnvProcExit

SpecStep == InitStep /\ [][NextStep]_vars

\* The observer thread runs: a pending create event is delivered, and the
\* handler goes on until it has returned.  Nothing is assumed of producers.
WatcherFairness ==
    /\ WF_vars(\E p \in FileNames \cup {DirName} : OnCreated(p))
    /\ WF_vars(LoadAttempt)
    /\ WF_vars(ProcessIntent)
    /\ WF_vars(WatcherReturn)

SpecWatchLive == InitWatch /\ [][NextWatch]_vars /\ WatcherFairness

InitEmit ==
    /\ policy = [a |-> "allow", b |-> "allow"]
    /\ RegIdle
    /\ UiIdle
    /\ RcpIdle
    /\ WatchIdle
    /\ OcrIdle
    /\ ShutIdle
    /\ ConcIdle
    /\ IdIdle
    /\ ResIdle
    /\ StepIdle
    /\ PollIdle
    /\ bridgeMappings = {"demo"}
    /\ manifest = FALSE
    /\ bridgeDir \in {{}, OldFiles, FullDir}
    /\ sequence = 0
    /\ bridgeRet = NoBridgeCall
    /\ bridgeCalls = 0
    /\ emitters = [t \in Emitters |-> EmitterIdle]

NextEmit ==
    \/ \E t \in Emitters : WriteIntentBegin(t)
    \/ \E t \in Emitters, ts \in Timestamps : WriteIntentAttempt(t, ts)
    \/ \E t \in Emitters : WriteIntentOpen(t)
    \/ \E t \in Emitters : WriteIntentRaise(t)

SpecEmit == InitEmit /\ [][NextEmit]_vars

InitPoll ==
    /\ policy = [a |-> "allow", b |-> "allow"]
    /\ RegIdle
    /\ UiIdle
    /\ RcpIdle
    /\ WatchIdle
    /\ BridgeIdle
    /\ OcrIdle
    /\ ShutIdle
    /\ ConcIdle
    /\ IdIdle
    /\ ResIdle
    /\ StepIdle
    /\ EmitIdle
    /\ seen_tokens = {}
    /\ polled = <<>>
    /\ pollRet = NoPoll
    /\ pollCalls = 0

NextPoll ==
    \/ \E transcript \in PollTranscripts : Poll(transcript)
    \/ Reset

SpecPoll == InitPoll /\ [][NextPoll]_vars
(***************************************************************************)
(* Properties of the Application Registry (checked under SpecReg).         *)
(* A record is live when its process is running or a window matching its   *)
(* application is open; liveness is stated here from the OS state alone.   *)
(***************************************************************************)
LiveIn(al, w, rec) == rec.proc \in al \/ OpenWindows(w, rec.app) # {}

SeqToSet(q) == {q[i] : i \in 1..Len(q)}

\* the records of the call's application that were live when the call began
PreLive == {r \in SeqToSet(ret.pre.running[ret.name]) : LiveIn(ret.pre.alive, ret.pre.win, r)}

Called(op) == ret.op = op /\ ret.name \in Apps

\* C1: under single_instance=detect, start(name) with a live record raises,
\* spawns no process (and makes no other OS call), and the running set of
\* the name stays at one record.
C1_DetectBlocksSecondStart ==
    (Called("start") /\ policy[ret.name] = "detect" /\ PreLive # {})
        => /\ ret.err = "already_running"
           /\ ret.calls = <<>>
           /\ alive = ret.pre.alive
           /\ Len(running[ret.name]) = 1

C1_Witness ==
    /\ Called("start") /\ policy[ret.name] = "detect" /\ PreLive # {}
    /\ ret.err = "already_running"

\* C2: under single_instance=force, when start(name) returns after being
\* called with a live prior instance, the prior instance's process is no
\* longer alive and the new record's process id differs from the prior one.
C2_ForceTerminatesPrior ==
    (Called("start") /\ policy[ret.name] = "force" /\ ret.err = "none")
        => \A r \in PreLive : r.proc \notin alive /\ ret.rec.proc # r.proc

\* C3: close and kill on an application with no live record raise the
\* not-running error and make no terminate, kill or close-window call.
C3_CloseKillNotRunning ==
    (ret.op \in {"close", "kill"} /\ ret.name \in Apps /\ PreLive = {})
        => ret.err = "not_running" /\ ret.calls = <<>>

C3_Witness ==
    /\ ret.op \in {"close", "kill"} /\ ret.name \in Apps /\ PreLive = {}
    /\ ret.pre.running[ret.name] # <<>>
    /\ ret.err = "not_running"

\* C4: running_processes(name) returns exactly the records of the name
\* that are live at the time of the query, in order; is_running(name) is
\* true iff there is one; and no call evicts a record that is still live.
C4_QueriesReconcileLiveness ==
    /\ Called("running_processes") =>
          LET IsLive(r) == LiveIn(alive, win, r)
          IN /\ ret.val = Ids(SelectSeq(ret.pre.running[ret.name], IsLive))
             /\ Ids(running[ret.name]) = ret.val
    /\ Called("is_running") =>
          (ret.flag <=> \E r \in SeqToSet(ret.pre.running[ret.name]) : LiveIn(alive, win, r))
    /\ ret.op # "idle" =>
          \A n \in Apps : \A r \in SeqToSet(ret.pre.running[n]) :
              r.id \notin IdsOf(running[n]) => ~LiveIn(alive, win, r)

C4_Witness ==
    /\ Called("running_processes")
    /\ Len(ret.pre.running[ret.name]) = 2
    /\ Len(ret.val) = 1
    /\ OpenWindows(win, ret.name) = {}

\* C5 as claimed: after start(name) and a close(name) that returns without
\* error on the application's only record, is_running(name) is false.
C5_CloseLeavesNotRunning ==
    (Called("close") /\ ret.err = "none" /\ Cardinality(PreLive) = 1)
        => ~is_running(Reg, Os, ret.name).flag

\* C5 amended: ... is_running(name) is false whenever the record's process
\* is gone (it had exited before, it exited within the timeout, or force was
\* set and the kill took effect) and every window matching the application
\* closed on the close request.
C5_CloseLeavesNotRunningWhenExited ==
    (/\ Called("close") /\ ret.err = "none" /\ Cardinality(PreLive) = 1
     /\ \A r \in PreLive :
            \/ r.proc \notin ret.pre.alive
            \/ r.proc \in ret.orc.termOk
            \/ ret.args.force /\ r.proc \in ret.orc.killOk
     /\ OpenWindows(ret.pre.win, ret.name) \subseteq ret.orc.closeOk)
        => /\ ~is_running(Reg, Os, ret.name).flag
           /\ running[ret.name] = <<>>

C5_Witness ==
    /\ Called("close") /\ ret.err = "none" /\ Cardinality(PreLive) = 1
    /\ \A r \in PreLive : r.proc \in ret.pre.alive /\ r.proc \in ret.orc.termOk
    /\ OpenWindows(ret.pre.win, ret.name) # {}
    /\ OpenWindows(ret.pre.win, ret.name) \subseteq ret.orc.closeOk
    /\ ~is_running(Reg, Os, ret.name).flag

(***************************************************************************)
(* Properties of the UI Interaction Engine (checked under SpecClick).      *)
(***************************************************************************)
Primaries == {resolution_order[i] : i \in 1..Len(resolution_order)}

PrimariesAttempted == SelectSeq(clickRet.attempted, LAMBDA m : m \in Primaries)

AllAttemptedFail ==
    \A i \in 1..Len(clickRet.attempted) : element.does[clickRet.attempted[i]] # "truthy"

\* C6: click on an enabled element attempts Invoke, Toggle, SelectionItem,
\* MSAA, native click in this order, each at most once; a strategy that
\* raises or returns falsy advances to the next; click returns the first
\* strategy that returned truthy and attempts none after it.
C6_ClickResolutionOrder ==
    (clickRet.status # "idle" /\ element.is_enabled)
        => LET prim == PrimariesAttempted
           IN /\ prim = SubSeq(resolution_order, 1, Len(prim))
              /\ \A i \in 1..Len(prim) :
                    IF element.does[prim[i]] = "truthy"
                    THEN /\ i = Len(prim)
                         /\ clickRet = ClickReturned(prim[i], prim)
                    ELSE i < Len(prim) \/ Len(prim) = Len(resolution_order)
              /\ (clickRet.status = "returned" /\ clickRet.method \in Primaries)
                    => /\ element.does[clickRet.method] = "truthy"
                       /\ clickRet.method = prim[Len(prim)]

C6_Witness ==
    /\ clickRet.status = "returned" /\ clickRet.method = MSAA
    /\ element.is_enabled
    /\ element.does[INVOKE] = "raises" /\ element.does[TOGGLE] = "falsy"
    /\ element.does[BM_CLICK] = "truthy"

\* C7: on an enabled element whose primary strategies all fail, the
\* focus-tap fallback is attempted iff the flag is enabled and its
\* identifier is returned if it succeeds; whenever every attempted strategy
\* fails by exception or falsy result, click raises the
\* unresolved-interaction error.
C7_FallbackAndUnresolved ==
    (clickRet.status # "idle" /\ element.is_enabled
        /\ \A m \in Primaries : element.does[m] # "truthy")
        => /\ (\E i \in 1..Len(clickRet.attempted) : clickRet.attempted[i] = FOCUS_TAP)
                  <=> allow_focus_tap
           /\ (allow_focus_tap /\ element.does[FOCUS_TAP] = "truthy")
                  => clickRet = ClickReturned(FOCUS_TAP, Append(resolution_order, FOCUS_TAP))
           /\ AllAttemptedFail
                  => clickRet.status = "raised" /\ clickRet.error = "unresolved"

\* C8: click on a disabled element fails at once: no primary strategy and
\* no fallback is attempted, whatever the fallback flag.
C8_DisabledFailsImmediately ==
    (clickRet.status # "idle" /\ ~element.is_enabled)
        => clickRet = ClickRaised("disabled", <<>>)

C8_Witness ==
    /\ clickRet = ClickRaised("disabled", <<>>)
    /\ ~element.is_enabled
    /\ allow_focus_tap
    /\ \A m \in ClickMethod : element.does[m] = "truthy"

(***************************************************************************)
(* Properties of the Recipe Runner and its activity trail (checked under   *)
(* SpecRecipe).                                                            *)
(***************************************************************************)
\* the records in the history that the current run_recipe call created
RunRecords == SelectSeq(history, LAMBDA r : r.run = runs)

\* a record as it is in the history: its completion time is set
Ended(rec) == [rec EXCEPT !.completed_at = TRUE]

\* records of steps 1..k of the current run: all succeeded, but the last
\* one failed when failed is set
StepRecords(k, failed) ==
    [i \in 1..k |->
        IF i = k /\ failed
        THEN Ended(Activity(recipe[i].name, "failed", recipe[i].raises, i, runs))
        ELSE Ended(Activity(recipe[i].name, "succeeded", "none", i, runs))]

HandlerRaised == runState = "raised" /\ runErr.from = "handler"

\* C9 as claimed: the records one run_recipe call appended are in the
\* document order of the steps executed; if step k fails, the records of
\* steps 1..k-1 are there, in order, succeeded, followed by the record of
\* step k, failed.
C9_HistoryInStepOrder ==
    /\ \A i, j \in 1..Len(RunRecords) :
          i < j => RunRecords[i].step_index < RunRecords[j].step_index
    /\ runState = "raised" => RunRecords = StepRecords(stepIdx, TRUE)

\* C9 amended: ... if the handler of step k raises, the history ends with
\* the records of steps 1..k-1, succeeded, followed by the record of step k,
\* failed, as far as history_limit retains them (the last history_limit
\* records when history_limit > 0); a step that run_recipe rejects before
\* calling a handler leaves no record of its own.
C9_HistoryInStepOrderWithinLimit ==
    runs > 0 =>
        LET k == Len(handlerLog)
            all == StepRecords(k, HandlerRaised)
        IN /\ \A i, j \in 1..Len(RunRecords) :
                 i < j => RunRecords[i].step_index < RunRecords[j].step_index
           /\ RunRecords = Trim(all, history_limit)
           /\ SubSeq(history, Len(history) - Len(RunRecords) + 1, Len(history)) = RunRecords
           /\ HandlerRaised => k = stepIdx
           /\ (runState = "raised" /\ ~HandlerRaised) => k = stepIdx - 1

C9_Witness ==
    /\ HandlerRaised
    /\ stepIdx = 3
    /\ history_limit = 2
    /\ runs = 2
    /\ Len(RunRecords) = 2

\* C10: when a step handler raises during run_recipe, the step's record is
\* marked failed with the exception's message, the exception propagates out
\* of run_recipe, and no handler of a later step runs and no record is
\* created for a later step.
C10_HandlerFailureAborts ==
    /\ (handlerLog # <<>> /\ recipe[handlerLog[Len(handlerLog)]].raises # "none")
          => /\ HandlerRaised
             /\ stepIdx = handlerLog[Len(handlerLog)]
    /\ HandlerRaised
          => /\ history # <<>>
             /\ history[Len(history)] =
                   Ended(Activity(recipe[stepIdx].name, "failed", recipe[stepIdx].raises,
                                  stepIdx, runs))
             /\ recipe[stepIdx].raises \in Messages
             /\ runErr.msg = recipe[stepIdx].raises
             /\ current = NoActivity
             /\ handlerLog = [i \in 1..stepIdx |-> i]
             /\ \A i \in 1..Len(history) :
                   history[i].run = runs => history[i].step_index <= stepIdx

C10_Witness ==
    /\ HandlerRaised
    /\ stepIdx = 1
    /\ Len(recipe) = 3
    /\ recipe[2].shape = "ok" /\ recipe[3].shape = "ok"
    /\ runs = 2

(***************************************************************************)
(* Properties of the Intent Watcher (checked under SpecWatch).             *)
(* handled.dir and handled.arch are the directories as the last step of    *)
(* the handler found them.                                                 *)
(***************************************************************************)
HandledFile == handled.path \in FileNames

FileSeen == handled.dir[handled.path]

GiveUpErrors == {"FileNotFoundError", "YAMLError", "RuntimeError_empty"}

\* C11: once a file is archived, a later create event for its path, with no
\* new file there, runs no recipe; the recipe of an archived file has run to
\* completion exactly once.
C11_ArchivedNeverReprocessed ==
    /\ (HandledFile /\ handled.arch[handled.path] # NoFile /\ FileSeen = NoFile)
          => /\ handled.ran = "no"
             /\ handled.error = "FileNotFoundError"
             /\ intentsDir = handled.dir
             /\ archiveDir = handled.arch
    /\ \A n \in FileNames : archiveDir[n] # NoFile => archiveDir[n].runs = 1

C11_Witness ==
    /\ HandledFile /\ handled.arch[handled.path] # NoFile /\ FileSeen = NoFile
    /\ handled.attempts = READ_RETRY_ATTEMPTS
    /\ handled.ran = "no"

\* C12: whenever the watcher is not handling an event, every file in the
\* archive directory had its recipe run to completion and no file in the
\* watch directory had.
C12_MoveIsCommitPoint ==
    (handling.pc = "idle" /\ handled = NoneHandled)
        => \A n \in FileNames :
              /\ archiveDir[n] # NoFile => archiveDir[n].runs >= 1
              /\ intentsDir[n] # NoFile => intentsDir[n].runs = 0

\* C13: a file whose payload lacks the intent field or names an unmapped
\* intent runs no recipe, is not read again, is not archived and stays in
\* the watch directory as it is.
C13_BadIntentLeftInPlace ==
    (HandledFile /\ FileSeen.content.kind = "mapping"
        /\ FileSeen.content.intent \notin Mappings)
        => /\ handled.ran = "no"
           /\ handled.error = (IF FileSeen.content.intent = "missing"
                               THEN "RuntimeError_missing_intent"
                               ELSE "RuntimeError_unmapped")
           /\ handling = NotHandling
           /\ intentsDir = handled.dir
           /\ archiveDir = handled.arch

C13_Witness ==
    /\ HandledFile /\ FileSeen.content = Payload("unmapped", "absent")
    /\ handled.error = "RuntimeError_unmapped"
    /\ handled.attempts = 1
    /\ intentsDir[handled.path] = IntentFile(Payload("unmapped", "absent"), 0)

C15_ArgsMustBeMapping ==
    /\ (HandledFile /\ FileSeen.content.kind = "mapping"
          /\ FileSeen.content.intent \in Mappings
          /\ FileSeen.content.args \in {"falsy_other", "truthy_other"})
          => handled.error = "TypeError_args" /\ handled.ran = "no"
    /\ (HandledFile /\ handled.ran # "no")
          => FileSeen.content.args \in {"absent", "mapping"}

Written(name) ==
    /\ intentsDir[name] # NoFile
    /\ intentsDir[name].content = Payload("demo", "absent")
    /\ archiveDir[name] = NoFile
    /\ watching

Archived(name) ==
    /\ archiveDir[name] # NoFile
    /\ archiveDir[name].content = Payload("demo", "absent")
    /\ archiveDir[name].runs = 1

C33_WrittenIntentEventuallyArchived ==
    \A name \in FileNames : Written(name) ~> Archived(name)
(***************************************************************************)
(* Chat Intent Bridge: properties                                          *)
(***************************************************************************)
BridgeCalled == bridgeRet.op = "process_transcript"

\* the commands of a transcript that name a mapped intent, as typed
RECURSIVE MappedCommands(_)
MappedCommands(transcript) ==
    IF transcript = <<>> THEN <<>>
    ELSE (IF /\ Head(transcript).kind = "command"
             /\ Lower(Head(transcript).name) \in bridgeMappings \ {"list_intents"}
          THEN <<Head(transcript)>> ELSE <<>>) \o MappedCommands(Tail(transcript))

HasCommand(transcript) == \E i \in DOMAIN transcript : transcript[i].kind = "command"

\* the args a command is expected to carry: every key in lower case with the
\* unquoted value of its last occurrence
ExpectedArgs(raw) ==
    [k \in {Lower(raw[i].key) : i \in DOMAIN raw} |->
        LET last == CHOOSE i \in DOMAIN raw :
                        /\ Lower(raw[i].key) = k
                        /\ \A j \in DOMAIN raw : Lower(raw[j].key) = k => j <= i
        IN strip_quotes(raw[last].value)]

FileAt(dir, name) == CHOOSE f \in dir : f.name = name

\* C17: process_transcript on a transcript with bracketed commands writes
\* exactly one new intent file per command whose name is mapped, in order,
\* holding the lower-cased name and the parsed args (no args when there are
\* none); unmapped commands and list_intents write nothing; the files that
\* were there stay as they were; the call returns the number of files written.
C17_OneFilePerMappedCommand ==
    (BridgeCalled /\ HasCommand(bridgeRet.transcript) /\ bridgeRet.error = "none") =>
        LET expected == MappedCommands(bridgeRet.transcript)
            written == bridgeRet.written
        IN /\ bridgeRet.emitted = Len(expected)
           /\ Len(written) = Len(expected)
           /\ bridgeRet.dir \subseteq bridgeDir
           /\ Cardinality(bridgeDir \ bridgeRet.dir) = Len(expected)
           /\ \A i \in DOMAIN written :
                /\ ~Exists(bridgeRet.dir, written[i])
                /\ \A j \in DOMAIN written : written[j] = written[i] => j = i
                /\ Cardinality({f \in bridgeDir : f.name = written[i]}) = 1
                /\ written[i].intent = Lower(expected[i].name)
                /\ LET payload == FileAt(bridgeDir, written[i]).payload
                   IN /\ payload.intent = Lower(expected[i].name)
                      /\ payload.args = ExpectedArgs(expected[i].args)
                      /\ payload.has_args = (expected[i].args # <<>>)

\* [macro:DEMO SYMBOL="AAPL" qty=10] next to an unmapped command, written
\* past two files that already hold the first names the bridge tries
C17_Witness ==
    /\ BridgeCalled
    /\ bridgeRet.transcript =
          <<CommandToken("other", <<RawArg("symbol", "AAPL")>>),
            CommandToken("DEMO", <<RawArg("SYMBOL", "\"AAPL\""), RawArg("qty", "10")>>)>>
    /\ bridgeRet.emitted = 1
    /\ bridgeRet.dir = OldFiles
    /\ bridgeDir \ bridgeRet.dir =
          {WrittenFile(FileName(1, "demo", 2),
                       [intent |-> "demo", has_args |-> TRUE,
                        args |-> [symbol |-> "AAPL", qty |-> "10"]])}

(***************************************************************************)
(* OCR Intent Scanner: properties                                          *)
(***************************************************************************)
MarkerSeen == scanRet.op = "marker"

\* the marker shows a command the bridge has a mapping for
Recognized(marker) ==
    /\ marker.kind = "command"
    /\ Lower(marker.name) \in bridgeMappings \ {"list_intents"}

\* the key of a marker: the name in lower case and the parsed arguments,
\* with the action id in front of the bracket unless the command names one
MarkerKey(marker) ==
    FiredKey(Lower(marker.name),
             ExpectedArgs(IF marker.action_id = "" \/
                             \E i \in DOMAIN marker.args : marker.args[i].key = "action_id"
                          THEN marker.args
                          ELSE marker.args \o <<RawArg("action_id", marker.action_id)>>))

LastOf(seq, n) == IF Len(seq) <= n THEN seq ELSE SubSeq(seq, Len(seq) - n + 1, Len(seq))

\* C18: a recognized marker whose key is in the fired history writes no
\* intent file and leaves the history alone; the history is a FIFO of at most
\* history_limit distinct keys, a fired key entering at the end and the oldest
\* leaving when the limit is exceeded; a marker whose key was evicted from the
\* history emits again: exactly one new file, and the key is back in it.
C18_DedupWhileInHistory ==
    /\ Len(fired_history) <= scan_history_limit
    /\ \A i, j \in DOMAIN fired_history : fired_history[i] = fired_history[j] => i = j
    /\ (MarkerSeen /\ Recognized(scanRet.marker)) =>
          LET key == MarkerKey(scanRet.marker)
          IN /\ key \in SeqToSet(scanRet.history) =>
                   /\ bridgeDir = scanRet.dir
                   /\ scanRet.emitted = 0
                   /\ fired_history = scanRet.history
             /\ scanRet.emitted > 0 =>
                   fired_history = LastOf(Append(scanRet.history, key), scan_history_limit)
             /\ key \in scanRet.evicted =>
                   /\ scanRet.emitted = 1
                   /\ scanRet.dir \subseteq bridgeDir
                   /\ \E f \in bridgeDir :
                        /\ bridgeDir \ scanRet.dir = {f}
                        /\ f.payload.intent = key.name
                        /\ f.payload.args = key.args
                   /\ fired_history[Len(fired_history)] = key

\* with history_limit 2: #intent#[demo] fired, two other commands fired and
\* evicted it, and #intent#[DEMO] on the screen writes a file again
C18_Witness ==
    /\ MarkerSeen
    /\ scanRet.marker = Marker("command", "DEMO", <<>>, "")
    /\ scan_history_limit = 2
    /\ FiredKey("demo", <<>>) \in scanRet.evicted
    /\ scanRet.emitted = 1
    /\ Cardinality(bridgeDir) = 4

\* C19: when the text provider raises, the scan thread goes to its sleep and
\* on to the next poll with the fired history, the lookup and the intents
\* directory as they were; the thread ends only once stop was requested; and a
\* marker whose key was in the history at the failure and still is writes no
\* file when it is seen afterwards.
C19_CaptureFailureKeepsState ==
    /\ scanRet.op = "capture_failed" =>
          /\ fired_history = scanRet.history
          /\ fired_lookup = scanRet.lookup
          /\ bridgeDir = scanRet.dir
          /\ scanPc = "sleep"
    /\ scanPc = "ended" => scan_stop
    /\ scanPc # "dead"
    /\ lastFailure.seen => SeqToSet(lastFailure.history) \subseteq fired_lookup \cup evicted
    /\ (MarkerSeen /\ lastFailure.seen /\ Recognized(scanRet.marker)) =>
          LET key == MarkerKey(scanRet.marker)
          IN (key \in SeqToSet(lastFailure.history) /\ key \in SeqToSet(scanRet.history)) =>
                bridgeDir = scanRet.dir

\* the provider raised with [demo] in the history; the next poll showed
\* [demo] again and wrote nothing
C19_Witness ==
    /\ MarkerSeen
    /\ lastFailure.seen
    /\ scanRet.marker = Marker("command", "demo", <<>>, "")
    /\ FiredKey("demo", <<>>) \in SeqToSet(lastFailure.history)
    /\ FiredKey("demo", <<>>) \in SeqToSet(scanRet.history)
    /\ scanRet.emitted = 0
    /\ bridgeDir = scanRet.dir
    /\ ticks >= 3


\* C40: for every history_limit and after any sequence of process_text
\* calls, the lookup set holds exactly the keys of the FIFO history, the
\* history holds no key twice and never more than history_limit keys, and a
\* marker for which the bridge emitted nothing records no key.
C40_LookupMirrorsHistory ==
    /\ fired_lookup = SeqToSet(fired_history)
    /\ \A i, j \in DOMAIN fired_history : i # j => fired_history[i] # fired_history[j]
    /\ Len(fired_history) <= scan_history_limit
    /\ Cardinality(fired_lookup) <= scan_history_limit
    /\ (scanRet.op = "marker" /\ scanRet.emitted = 0)
          => fired_history = scanRet.history /\ fired_lookup = scanRet.lookup
(***************************************************************************)
(* Panic shutdown: properties                                              *)
(***************************************************************************)
\* C20: when the panic callback returns, stop() has been called on the
\* intent watcher, on the chat bridge where there is one, on the OCR scanner
\* where one was created, and on the hotkey listener.
C20_CallbackStopsEverything ==
    cbPc = "returned" =>
        /\ observer # "running"
        /\ BridgeExists => bridge_stop_event
        /\ scanner # "running"
        /\ hotkey.stop_event

\* C21: trigger_shutdown passes its guard at most once and interrupt_main()
\* is called at most once, however often the hotkey is pressed; and once
\* shutdown was requested the main thread's cleanup (the stop calls of the
\* finally block on scanner, bridge, listener and watcher) runs to its end:
\* main() is never left with part of the block not run.
C21_PanicIdempotent ==
    /\ panics.passed <= 1
    /\ panics.interrupts <= 1
    /\ shutdown_requested => mainPc # "aborted"


\* C34: the registration of the hotkey succeeded; by the time the listener
\* thread has exited, UnregisterHotKey has released it: no run of stop()
\* against the listener loop, a stop() whose join times out while the
\* callback is still running included, leaves the thread exited and the
\* hotkey still registered with the OS.
C34_HotkeyUnregisteredOnExit ==
    hotkey.thread = "exited" => ~hotkey.os
(***************************************************************************)
(* Application Registry: further properties                                *)
(***************************************************************************)
\* C22: with start, close and kill called from several threads in any
\* interleaving, two start(name) calls for an application with
\* single_instance=detect never both succeed: the running-process table
\* never holds two records for that name.
C22_ConcurrentStartsSerialized ==
    \A name \in Apps :
        policy[name] = "detect" => Len(running[name]) <= 1


\* C23: every registry operation (start, focus, minimize, maximize, restore,
\* close, kill) called with a name that is not configured fails with the
\* unknown-application error and leaves the registry's tables as they were.
RegistryOps == {"start", "close", "kill"} \cup ShowOps

C23_UnknownNameFailsFast ==
    (ret.op \in RegistryOps /\ ret.name \notin Configured)
        => /\ ret.err = "unknown_app"
           /\ running = ret.pre.running
           /\ instances = ret.pre.instances

\* C24: in close(name, timeout, force, allInstances), a hard kill is issued
\* only for a selected record whose process was asked to terminate, did not
\* exit within the timeout, and only when force is set; and for each selected
\* record a close is requested for each of its tracked windows after the
\* termination attempt on it.
CloseSelected ==
    select_records([running |-> ret.pre.running, instances |-> ret.pre.instances],
                   [alive |-> ret.pre.alive, win |-> ret.pre.win, calls |-> <<>>],
                   ret.name, ret.args.all).sel

CallsAt(c, arg) == {i \in 1..Len(ret.calls) : ret.calls[i] = <<c, arg>>}

HardKills == {i \in 1..Len(ret.calls) : ret.calls[i][1] \in {"kill", "terminate_process"}}

C24_CloseEscalation ==
    (Called("close") /\ ret.err = "none")
        => /\ \A i \in HardKills :
                /\ ret.args.force
                /\ \E r \in SeqToSet(CloseSelected) :
                       /\ ret.calls[i][2] = r.proc
                       /\ r.proc \in ret.pre.alive
                       /\ r.proc \notin ret.orc.termOk
                       /\ \E j \in CallsAt("terminate", r.proc) : j < i
           /\ \A r \in SeqToSet(CloseSelected) :
                /\ (r.proc \in ret.pre.alive) => CallsAt("terminate", r.proc) # {}
                /\ \A k \in 1..Len(r.windows) :
                       \E i \in CallsAt("close_window", r.windows[k].hwnd) :
                           \A j \in CallsAt("terminate", r.proc) \cup CallsAt("kill", r.proc) :
                               j < i

C24_Witness ==
    /\ Called("close") /\ ret.err = "none" /\ ret.args.force
    /\ HardKills # {}
    /\ \E r \in SeqToSet(CloseSelected) : r.windows # <<>> /\ r.proc \in ret.pre.alive

\* C25: record selection among the live records of a name: "latest" (or no
\* target) selects the most recently appended record, "first" the oldest, an
\* integer or an all-digit string a record whose pid equals it, any other
\* string the record whose instance identifier equals it; when nothing
\* matches, the operation fails with not-running.
ShowSeen ==
    purge_stopped([running |-> ret.pre.running, instances |-> ret.pre.instances],
                  [alive |-> ret.pre.alive, win |-> ret.pre.win, calls |-> <<>>],
                  ret.name).running[ret.name]

Matching(recs, target) ==
    IF recs = <<>> THEN {}
    ELSE IF target.kind = "latest" THEN {recs[Len(recs)].id}
    ELSE IF target.kind = "first" THEN {recs[1].id}
    ELSE IF target.kind \in {"pid", "digits"}
         THEN {r.id : r \in {q \in SeqToSet(recs) : q.pid = target.v}}
    ELSE {r.id : r \in {q \in SeqToSet(recs) : q.id = target.v}}

C25_RecordSelection ==
    (ret.op \in ShowOps /\ ret.name \in Apps /\ ret.args.target.kind # "other")
        => IF Matching(ShowSeen, ret.args.target) = {}
           THEN ret.err = "not_running"
           ELSE ret.err = "none" /\ ret.rec.id \in Matching(ShowSeen, ret.args.target)

\* C37: focus, minimize, maximize and restore called as (name, target)
\* return, and act on, a record of the application name only: whatever the
\* target, an instance identifier issued for another application included,
\* a call that does not fail returns a record whose application is name.
C37_ShowStaysWithinApp ==
    (ret.op \in ShowOps /\ ret.name \in Apps /\ ret.err = "none")
        => ret.rec.app = ret.name

\* C26: for every instance identifier returned by start(name), focus(name,
\* target = that identifier) while the instance is live returns the record
\* with that instance identifier, with last_focused_at set, and
\* is_running(name) is true immediately afterwards.
FocusedInstance(id) ==
    /\ Called("focus")
    /\ ret.args.target = InstanceTarget(id)
    /\ \E r \in PreLive : r.id = id

C26_FocusByReturnedId ==
    \A id \in ProcIds :
        FocusedInstance(id)
            => /\ ret.err = "none"
               /\ ret.rec.id = id
               /\ ret.rec.focused
               /\ is_running(Reg, Os, ret.name).flag

\* C30: under single_instance=force, when start(name) returns, the running
\* set for name contains exactly one record, the newly created one, and no
\* earlier instance identifier for that name remains resolvable.
C30_ForceLeavesOnlyNewRecord ==
    (Called("start") /\ policy[ret.name] = "force" /\ ret.err = "none")
        => /\ Ids(running[ret.name]) = <<ret.rec.id>>
           /\ \A r \in SeqToSet(ret.pre.running[ret.name]) : r.id \notin instances

\* C39: kill(name) and close(name) without all_instances touch the record
\* appended last only: every other record of the name that was live when the
\* call began keeps its process and the windows of that process, and stays
\* in the running set.
C39_OnlyLatestAffected ==
    (ret.op \in {"close", "kill"} /\ ret.name \in Apps /\ ~ret.args.all /\ ret.err = "none")
        => \A i \in 1..(Len(ShowSeen) - 1) :
              /\ ShowSeen[i].proc \in ret.pre.alive => ShowSeen[i].proc \in alive
              /\ \A h \in Hwnds :
                    (ret.pre.win[h].pid = ShowSeen[i].proc /\ ShowSeen[i].proc \in ret.pre.alive)
                        => win[h] = ret.pre.win[h]
              /\ ShowSeen[i].proc \in ret.pre.alive
                    => \E j \in DOMAIN running[ret.name] : running[ret.name][j].id = ShowSeen[i].id
(***************************************************************************)
(* Recipe Runner and State Store: further properties                       *)
(***************************************************************************)
\* C27: run_recipe rejects a step that is not a mapping with exactly one
\* key with a structural error and a step whose name has no handler with an
\* unsupported-step error; neither that step's handler nor the handler of
\* any later step is executed.
StructuralErrors == {"not_mapping", "not_single_key"}

Rejected(k) == recipe[k].shape \in StructuralErrors \cup {"unsupported"}

NamesTarget(m) ==
    m.instance_id # Absent \/ m.instance # Absent \/ m.pid # Absent \/ Truthy(m.target)

TargetsNamed(m) ==
    {ResolvedStr(v) : v \in {m.instance_id, m.instance} \ {Absent}}
        \cup (IF m.pid # Absent THEN {to_int(m.pid)} ELSE {})
        \cup (IF Truthy(m.target) THEN {ResolvedStr(m.target)} ELSE {})

C28_TargetPrecedence ==
    resolved # NotResolved
        => IF NamesTarget(stepPayload) THEN resolved \in TargetsNamed(stepPayload)
           ELSE IF NamesTarget(stepContext) THEN resolved \in TargetsNamed(stepContext)
           ELSE IF latest_instance # Absent THEN resolved = ResolvedStr(latest_instance)
           ELSE resolved = ResolvedStr("latest")

\* C29: for any configured history limit and after any sequence of completed
\* activities, the activity history holds at most history_limit records, and
\* they are the most recently completed ones, in completion order.
LastCompleted(n) ==
    IF Len(completed) <= n THEN completed
    ELSE SubSeq(completed, Len(completed) - n + 1, Len(completed))

C29_HistoryCapped ==
    /\ Len(history) <= history_limit
    /\ history = LastCompleted(history_limit)

\* C31: there is at most one current activity, and it has status running
\* with no completion time; every record in the history has status succeeded
\* or failed with a completion time set; and whenever run_recipe has returned
\* or raised, no activity is current.
C31_ActivityRecordStates ==
    /\ current # NoActivity => current.status = "running" /\ ~current.completed_at
    /\ \A i \in 1..Len(history) :
          /\ history[i].status \in {"succeeded", "failed"}
          /\ history[i].completed_at
    /\ runState \in {"returned", "raised"} => current = NoActivity

C31_Witness ==
    /\ runState = "raised" /\ runErr.from = "handler"
    /\ Len(history) = 2
    /\ history[1].status = "succeeded" /\ history[2].status = "failed"
    /\ current = NoActivity

\* C32: an app focus/minimize/maximize/restore step that names no target in
\* its payload or context acts on a live instance of the application:
\* whenever the registry holds a live record for the app, the step succeeds
\* on a live record of that app, even if the instance most recently recorded
\* in the State Store has since died.
C32_DefaultTargetIsLive ==
    (ret.op \in ShowOps /\ ret.name \in Apps /\ PreLive # {})
        => /\ ret.err = "none"
           /\ \E r \in PreLive : r.id = ret.rec.id


\* C38: after an app.close or app.kill step the State Store marks closed or
\* killed only instances that have left the registry's running set: an
\* instance still running after the step (another instance when the step
\* did not select all, a process that outlived a close without force) is
\* not marked closed or killed.
C38_MarkedOnlyIfRemoved ==
    (ret.op \in {"close", "kill"} /\ ret.name \in Apps /\ ret.err = "none")
        => \A i \in DOMAIN process_registry :
              process_registry[i].status \in {"closed", "killed"}
                  => \A j \in DOMAIN running[process_registry[i].app] :
                        running[process_registry[i].app][j].id # process_registry[i].instance_id
(***************************************************************************)
(* Concurrent emissions through one bridge: properties                     *)
(***************************************************************************)
AllWritten == emitters["chat"].written \o emitters["ocr"].written

\* C35: however the chat loop's and the scan thread's _write_intent calls
\* interleave, the paths written are pairwise distinct, no open("w") lands
\* on a file that is present (one written before the bridge existed or one
\* of another emission), every written file holds its emission's payload,
\* and a call makes at most WRITE_ATTEMPTS attempts and raises only after
\* the last of them.
C35_ConcurrentEmissionsDistinct ==
    /\ \A i, j \in DOMAIN AllWritten : i # j => AllWritten[i] # AllWritten[j]
    /\ \A t \in Emitters :
        /\ emitters[t].clobbered = {}
        /\ \A i \in DOMAIN emitters[t].written :
              WrittenFile(emitters[t].written[i], EmitterPayload(t)) \in bridgeDir
        /\ emitters[t].tries <= WRITE_ATTEMPTS
        /\ emitters[t].pc = "raised" => emitters[t].tries = WRITE_ATTEMPTS

\* both threads have written a name of the same second, and the
\* directory held files before
C35_Witness ==
    /\ \A t \in Emitters : Len(emitters[t].written) = 1
    /\ emitters["chat"].written[1].ts = emitters["ocr"].written[1].ts
    /\ OldFiles \subseteq bridgeDir

\* a call that ran out of attempts while the other thread was writing
AttemptsExhausted ==
    \E t \in Emitters : emitters[t].pc = "raised"
(***************************************************************************)
(* Chat Command Watcher: properties                                        *)
(***************************************************************************)
\* the commands of a transcript that a poll has to return: in transcript
\* order, each command at its first place, those returned before left out
RECURSIVE NewCommands(_, _)
NewCommands(commands, before) ==
    IF commands = <<>> THEN <<>>
    ELSE LET rest == NewCommands(SubSeq(commands, 1, Len(commands) - 1), before)
             last == commands[Len(commands)]
         IN IF last \in SeqToSet(before) \cup SeqToSet(SubSeq(commands, 1, Len(commands) - 1))
            THEN rest ELSE Append(rest, last)

\* C36: with no reset in between, no command (name, args, source text) is
\* returned twice, by two polls or within one; a poll returns, in transcript
\* order, exactly the commands of its transcript not returned since the
\* last reset; reset() empties the set of seen tokens, and the poll after
\* it returns every command of its transcript, those returned before the
\* reset included.
C36_PollReturnsEachCommandOnce ==
    /\ \A i, j \in DOMAIN polled : i # j => polled[i] # polled[j]
    /\ pollRet.op = "poll" =>
          /\ pollRet.fresh = NewCommands(parse(pollRet.transcript), pollRet.before)
          /\ SeqToSet(pollRet.forgotten) \cap SeqToSet(parse(pollRet.transcript))
                \subseteq SeqToSet(pollRet.fresh)
    /\ pollRet.op = "reset" => seen_tokens = {}

\* the poll after a reset returned two commands that a poll before the
\* reset had returned: same name and args, told apart by the source text
C36_Witness ==
    /\ pollRet.op = "poll"
    /\ Len(pollRet.fresh) = 2
    /\ pollRet.fresh[1].name = pollRet.fresh[2].name
    /\ pollRet.fresh[1].args = pollRet.fresh[2].args
    /\ SeqToSet(pollRet.fresh) \subseteq SeqToSet(pollRet.forgotten)
====
